---- MODULE Spec2Model ----
(***************************************************************************)
(* A model of the TeamViewer artifact extraction module                    *)
(* (src/teamviewer_analyzer.py, class TeamViewerIngestModule).             *)
(*                                                                         *)
(* Text is modelled at the level of characters: a Python string is a       *)
(* sequence of one-character strings, so that readline, split, the regular *)
(* expressions and strptime are computed and not assumed.  A blackboard    *)
(* artifact is a record [type, file, attrs], attrs being the list of       *)
(* <<attribute type, value>> pairs the code adds; its artifact ID is its   *)
(* index on the blackboard.                                                *)
(***************************************************************************)
EXTENDS Integers, Sequences, FiniteSets, TLC

VARIABLES
    startUpSuccessful,    \* "None" | "False" | "True"   (self.startUpSuccessful)
    caseArtifactTypes,    \* artifact types known to the case database
    tempDirExists,        \* whether self.tempDirPath is a directory
    pc,                   \* position of the ingest job in startUp / process
    hiveFileList,         \* process: hiveFileList
    fsFileList,           \* process: filesystemArtifactFileIdMatchDictionary.items()
    filesToProcessCount,  \* process: filesToProcessCount
    filesProcessedCount,  \* process: filesProcessedCount
    progress,             \* the values given to progressBar.progress, in order
    blackboard,           \* the artifacts created so far, in creation order
    result,               \* what process returned, or the exception that left it
    arg,                  \* the input of the operation under study
    ret                   \* its return value (or "pending")

vars == <<startUpSuccessful, caseArtifactTypes, tempDirExists, pc, hiveFileList,
          fsFileList, filesToProcessCount, filesProcessedCount, progress,
          blackboard, result, arg, ret>>

\* the state of the ingest job, which an operation studied on its own leaves alone
jobVars == <<startUpSuccessful, caseArtifactTypes, tempDirExists, hiveFileList,
             fsFileList, filesToProcessCount, filesProcessedCount, progress, result>>

\* a started module with no job under way, ready to apply one operation
InitOperation ==
    /\ startUpSuccessful = "True"
    /\ caseArtifactTypes = {}
    /\ tempDirExists = TRUE
    /\ hiveFileList = <<>>
    /\ fsFileList = <<>>
    /\ filesToProcessCount = 0
    /\ filesProcessedCount = 0
    /\ progress = <<>>
    /\ result = "none"
    /\ pc = "ready"

-----------------------------------------------------------------------------
(* Characters and strings.                                                 *)

Digit == {"0", "1", "2", "3", "4", "5", "6", "7", "8", "9"}

Letter == {"a", "b", "c", "d", "e", "f", "g", "h", "i", "j", "k", "l", "m",
           "n", "o", "p", "q", "r", "s", "t", "u", "v", "w", "x", "y", "z",
           "A", "B", "C", "D", "E", "F", "G", "H", "I", "J", "K", "L", "M",
           "N", "O", "P", "Q", "R", "S", "T", "U", "V", "W", "X", "Y", "Z"}

\* \w of the re module (no LOCALE, no UNICODE flag)
WordChar == Digit \cup Letter \cup {"_"}

\* the characters str.split() and str.strip() treat as whitespace
Whitespace == {" ", "\t", "\n", "\r", "\f"}

HexDigit == Digit \cup {"a", "b", "c", "d", "e", "f", "A", "B", "C", "D", "E", "F"}

Slice(s, i, j) == [k \in 1..(j - i + 1) |-> s[i + k - 1]]

RECURSIVE Flatten(_)
Flatten(ss) == IF ss = <<>> THEN <<>> ELSE Head(ss) \o Flatten(Tail(ss))

\* sep.join(parts)
RECURSIVE Join(_, _)
Join(parts, sep) ==
    IF parts = <<>> THEN <<>>
    ELSE IF Len(parts) = 1 THEN parts[1]
    ELSE parts[1] \o sep \o Join(Tail(parts), sep)

\* sub in s
Contains(s, sub) ==
    \E i \in 1..(Len(s) - Len(sub) + 1) : Slice(s, i, i + Len(sub) - 1) = sub

\* s.endswith(suffix)
EndsWith(s, suffix) ==
    /\ Len(s) >= Len(suffix)
    /\ Slice(s, Len(s) - Len(suffix) + 1, Len(s)) = suffix

\* s.startswith(prefix)
StartsWith(s, prefix) ==
    /\ Len(s) >= Len(prefix)
    /\ Slice(s, 1, Len(prefix)) = prefix

\* a test that would take any token for an ID
AcceptsAnyToken(s) == Len(s) > 0

\* s.isdigit(): non-empty and every character a decimal digit
IsDigitStr(s) == Len(s) > 0 /\ \A i \in 1..Len(s) : s[i] \in Digit

\* the k-th smallest element of a finite set of numbers
Nth(S, k) == CHOOSE x \in S : Cardinality({y \in S : y < x}) = k - 1

Min(S) == CHOOSE x \in S : \A y \in S : x <= y

Max(S) == CHOOSE x \in S : \A y \in S : x >= y

\* s.lstrip(), s.rstrip(), s.strip()
LStrip(s) ==
    LET kept == {i \in 1..Len(s) : s[i] \notin Whitespace}
    IN  IF kept = {} THEN <<>> ELSE SubSeq(s, Min(kept), Len(s))

RStrip(s) ==
    LET kept == {i \in 1..Len(s) : s[i] \notin Whitespace}
    IN  IF kept = {} THEN <<>> ELSE SubSeq(s, 1, Max(kept))

Strip(s) == RStrip(LStrip(s))

\* s.split(): the maximal runs of non-whitespace characters, in order
Split(s) ==
    LET starts == {i \in 1..Len(s) :
                      s[i] \notin Whitespace /\ (i = 1 \/ s[i - 1] \in Whitespace)}
        ends == {i \in 1..Len(s) :
                    s[i] \notin Whitespace /\ (i = Len(s) \/ s[i + 1] \in Whitespace)}
    IN  [k \in 1..Cardinality(starts) |-> SubSeq(s, Nth(starts, k), Nth(ends, k))]

\* s.split(c) for a one-character separator: empty parts are kept
SplitOn(s, c) ==
    LET seps == {i \in 1..Len(s) : s[i] = c}
        n == Cardinality(seps)
        Left(k) == IF k = 1 THEN 1 ELSE Nth(seps, k - 1) + 1
        Right(k) == IF k = n + 1 THEN Len(s) ELSE Nth(seps, k) - 1
    IN  [k \in 1..(n + 1) |-> SubSeq(s, Left(k), Right(k))]

\* s.replace(c, "") for a one-character c
RemoveChar(s, c) == SelectSeq(s, LAMBDA x : x # c)

\* the lines of a text file as readline / iteration give them: each keeps
\* its terminating newline, the last one has none when the file lacks it
ReadLines(content) ==
    LET starts == {i \in 1..Len(content) : i = 1 \/ content[i - 1] = "\n"}
        ends == {i \in 1..Len(content) : i = Len(content) \/ content[i] = "\n"}
    IN  [k \in 1..Cardinality(starts) |-> SubSeq(content, Nth(starts, k), Nth(ends, k))]

\* fp.readline() for the n-th call on a fresh file: "" at end of file
ReadLine(lines, n) == IF n <= Len(lines) THEN lines[n] ELSE <<>>

-----------------------------------------------------------------------------
(* Blackboard artifacts.                                                   *)

\* "fmt" % args, kept unexpanded
Fmt(fmt, args) == [fmt |-> fmt, args |-> args]

createAttribute(attributeType, value) == <<attributeType, value>>

NewArtifact(type, file, attrs) == [type |-> type, file |-> file.id, attrs |-> attrs]

HasAttr(a, t) == \E i \in 1..Len(a.attrs) : a.attrs[i][1] = t

\* the value of the first attribute of type t
AttrOf(a, t) ==
    a.attrs[CHOOSE i \in 1..Len(a.attrs) :
                /\ a.attrs[i][1] = t
                /\ \A j \in 1..(i - 1) : a.attrs[j][1] # t][2]

\* a parser that would not record a value the blackboard already holds
CreateUnlessKnown(bb, artifactTypeName, abstractFile, value, description, associatedArtifact) ==
    IF \E i \in 1..Len(bb) :
           /\ bb[i].type = artifactTypeName
           /\ bb[i].attrs[1] = createAttribute("TSK_VALUE", value)
    THEN bb
    ELSE Append(bb, NewArtifact(artifactTypeName, abstractFile,
             << createAttribute("TSK_VALUE", value),
                createAttribute("TSK_DESCRIPTION", description),
                createAttribute("TSK_ASSOCIATED_ARTIFACT", associatedArtifact) >>))

createBasicArtifact(bb, artifactTypeName, abstractFile, value, description, associatedArtifact) ==
    Append(bb, NewArtifact(artifactTypeName, abstractFile,
        << createAttribute("TSK_VALUE", value),
           createAttribute("TSK_DESCRIPTION", description),
           createAttribute("TSK_ASSOCIATED_ARTIFACT", associatedArtifact) >>))

createTeamViewerIdArtefact(bb, abstractFile, value, description, associatedArtifact) ==
    createBasicArtifact(bb, "TSK_TEAMVIEWER_ID", abstractFile, value, description,
                        associatedArtifact)

createTeamViewerUsernameArtefact(bb, abstractFile, value, description, associatedArtifact) ==
    createBasicArtifact(bb, "TSK_TEAMVIEWER_USERNAME", abstractFile, value,
                        description, associatedArtifact)

-----------------------------------------------------------------------------
(* identifyIpAddresses: re.findall(r"\b\d{1,3}\.\d{1,3}\.\d{1,3}\.\d{1,3}\b"). *)

regularExpressionString == "\\b\\d{1,3}\\.\\d{1,3}\\.\\d{1,3}\\.\\d{1,3}\\b"

\* a pattern without its \b assertions would match at any gap
AnyGap(s, i) == TRUE

\* \b at the gap before position i (1..Len+1): exactly one side is a word character
WordBoundary(s, i) ==
    LET before == i > 1 /\ s[i - 1] \in WordChar
        after  == i <= Len(s) /\ s[i] \in WordChar
    IN  before # after

DigitsAt(s, i, k) == i + k - 1 <= Len(s) /\ \A j \in i..(i + k - 1) : s[j] \in Digit

\* The backtracking match of the rest of the pattern at position i, with
\* `groups` digit groups still to match: the position after the match, or 0.
\* \d{1,3} is greedy: three digits are tried first, then two, then one.
RECURSIVE MatchGroups(_, _, _)
MatchGroups(s, i, groups) ==
    LET After(k) ==
            IF ~DigitsAt(s, i, k) THEN 0
            ELSE IF groups = 1
                 THEN (IF WordBoundary(s, i + k) THEN i + k ELSE 0)
                 ELSE IF i + k <= Len(s) /\ s[i + k] = "."
                      THEN MatchGroups(s, i + k + 1, groups - 1)
                      ELSE 0
        OrElse(matched, shorter) == IF matched # 0 THEN matched ELSE shorter
    IN  OrElse(After(3), OrElse(After(2), After(1)))

IpMatchAt(s, i) == IF WordBoundary(s, i) THEN MatchGroups(s, i, 4) ELSE 0

\* the spans <<first, last>> of the matches re.findall reports, scanning from i
RECURSIVE IpSpansFrom(_, _)
IpSpansFrom(s, i) ==
    LET \* a match is <<first, position after it>>
        Spans(m) == << <<m[1], m[2] - 1>> >> \o IpSpansFrom(s, m[2])
        Leftmost(matches) ==
            IF matches = {} THEN <<>>
            ELSE Spans(CHOOSE m \in matches : \A n \in matches : m[1] <= n[1])
    IN  Leftmost({m \in {<<j, IpMatchAt(s, j)>> : j \in i..Len(s)} : m[2] # 0})

IpFindAll(s) ==
    LET Slices(spans) == [k \in 1..Len(spans) |-> Slice(s, spans[k][1], spans[k][2])]
    IN  Slices(IpSpansFrom(s, 1))

RECURSIVE AddIpArtifacts(_, _, _, _, _, _)
AddIpArtifacts(bb, abstractFile, value, description, associatedArtifact, addresses) ==
    IF addresses = <<>> THEN bb
    ELSE LET more == << createAttribute("TSK_KEYWORD_REGEXP", regularExpressionString),
                        createAttribute("TSK_TEXT", value) >>
             Extended(created) == [created EXCEPT ![Len(created)].attrs = @ \o more]
         IN  AddIpArtifacts(
                 Extended(createBasicArtifact(bb, "TSK_TEAMVIEWER_IP_ADDRESS",
                              abstractFile, Head(addresses), description,
                              associatedArtifact)),
                 abstractFile, value, description, associatedArtifact, Tail(addresses))

identifyIpAddresses(bb, abstractFile, value, description, associatedArtifact) ==
    AddIpArtifacts(bb, abstractFile, value, description, associatedArtifact,
                   IpFindAll(value))

-----------------------------------------------------------------------------
(* Registry values and the registry tree.                                  *)
(*                                                                         *)
(* A registry value is [name, type, data]: data is a string for REG_SZ and *)
(* REG_EXPAND_SZ, a list of strings for REG_MULTI_SZ, a number for         *)
(* REG_DWORD and REG_QWORD, and otherwise the raw bytes as ByteBuffer.get  *)
(* returns them, signed (-128..127).                                       *)
(* A key tree is a table of keys: key 1 is the root, parent[k] < k is the  *)
(* parent of key k, getSubkeyList enumerates the children of a key in      *)
(* increasing index, vals[k] is what getValueList returns for key k.       *)
(* bad names the key whose badOp ("values" or "subkeys") enumeration the   *)
(* hive reader fails with RegistryParseException (0: none).                *)

HexChars == <<"0", "1", "2", "3", "4", "5", "6", "7", "8", "9",
              "a", "b", "c", "d", "e", "f">>

\* format(byte, '02x') for 0 <= byte <= 255
Hex02(byte) == <<HexChars[(byte \div 16) + 1], HexChars[(byte % 16) + 1]>>

\* str(n) for n >= 0
RECURSIVE ToDecimal(_)
ToDecimal(n) ==
    IF n < 10 THEN <<HexChars[n + 1]>>
    ELSE Append(ToDecimal(n \div 10), HexChars[(n % 10) + 1])

\* java.util.List.toString(): "[a, b]"
ListToString(list) == <<"[">> \o Join(list, <<",", " ">>) \o <<"]">>

\* the loop of lines 794-798 over the remaining bytes
RECURSIVE HexDumpLoop(_, _)
HexDumpLoop(stringData, rawData) ==
    IF rawData = <<>> THEN stringData
    ELSE LET b == Head(rawData)
             byte == IF b < 0 THEN b + 256 ELSE b
         IN  HexDumpLoop(stringData \o <<" ">> \o Hex02(byte), Tail(rawData))

getRegistryValueAsString(registryValueObject) ==
    LET valueTypeString == registryValueObject.type
        data == registryValueObject.data
    IN  IF valueTypeString = "REG_EXPAND_SZ" \/ valueTypeString = "REG_SZ"
        THEN data
        ELSE IF valueTypeString = "REG_MULTI_SZ" THEN ListToString(data)
        ELSE IF valueTypeString = "REG_DWORD" \/ valueTypeString = "REG_QWORD"
        THEN ToDecimal(data)
        ELSE Strip(HexDumpLoop(<<"R", "a", "w", ":", " ">>, data))

\* dict[name] = value
DictSet(dict, name, value) ==
    [n \in DOMAIN dict \cup {name} |-> IF n = name THEN value ELSE dict[n]]

\* dict.update(other)
DictUpdate(dict, other) ==
    [n \in DOMAIN dict \cup DOMAIN other |-> IF n \in DOMAIN other THEN other[n] ELSE dict[n]]

EmptyDict == [n \in {} |-> <<>>]

\* registryKey.getSubkeyList(), in enumeration order
SubkeyList(tree, key) ==
    LET kids == {c \in 1..Len(tree.parent) : tree.parent[c] = key}
        RECURSIVE Sorted(_)
        Sorted(set) ==
            IF set = {} THEN <<>>
            ELSE LET m == CHOOSE x \in set : \A y \in set : x <= y
                 IN  <<m>> \o Sorted(set \ {m})
    IN  Sorted(kids)

\* a loop that would keep the value a name already has
RECURSIVE KeepFirstValues(_, _)
KeepFirstValues(dict, values) ==
    IF values = <<>> THEN dict
    ELSE KeepFirstValues(IF Head(values).name \in DOMAIN dict THEN dict
                         ELSE DictSet(dict, Head(values).name,
                                      getRegistryValueAsString(Head(values))),
                         Tail(values))

\* the loop of lines 760-761 over the values of one key
RECURSIVE StoreValues(_, _)
StoreValues(dict, values) ==
    IF values = <<>> THEN dict
    ELSE StoreValues(DictSet(dict, Head(values).name,
                             getRegistryValueAsString(Head(values))),
                     Tail(values))

\* processRegistryTree(registryKey, registryNameValueDictionary): the
\* dictionary returned, or the exception the hive reader raised on the way
\* (nothing catches it here, so it leaves the walk at once).
RECURSIVE processRegistryTreeAt(_, _, _)
RECURSIVE WalkSubkeys(_, _, _)
processRegistryTreeAt(tree, key, registryNameValueDictionary) ==
    LET Subkeys(dict) ==
            IF tree.bad = key /\ tree.badOp = "subkeys"
            THEN [exc |-> "RegistryParseException", dict |-> dict]
            ELSE WalkSubkeys(tree, SubkeyList(tree, key), dict)
    IN  IF tree.bad = key /\ tree.badOp = "values"
        THEN [exc |-> "RegistryParseException", dict |-> registryNameValueDictionary]
        ELSE Subkeys(StoreValues(registryNameValueDictionary, tree.vals[key]))

WalkSubkeys(tree, subkeys, dict) ==
    LET Following(r) ==
            IF r.exc # "none" THEN r
            \* the callee returns the dictionary it was given: update with itself
            ELSE WalkSubkeys(tree, Tail(subkeys), DictUpdate(r.dict, r.dict))
    IN  IF subkeys = <<>> THEN [exc |-> "none", dict |-> dict]
        ELSE Following(processRegistryTreeAt(tree, Head(subkeys), dict))

\* processRegistryTree(registryKey) as processHive calls it: a fresh dictionary
processRegistryTree(tree) == processRegistryTreeAt(tree, 1, EmptyDict)

-----------------------------------------------------------------------------
(* Files.  An abstract file is [id, path, match, content, materializes]:   *)
(* path is getUniquePath(), match the pattern that located it, content its *)
(* text, materializes whether ContentUtils.writeToFile can copy it out.    *)
(* A parser returns [bb, exc]: the blackboard it leaves and the exception  *)
(* that left it ("none" when it returned).                                 *)

createTemporaryFile(abstractFile) ==
    IF abstractFile.materializes THEN "none" ELSE "IOException"

Returned(bb) == [bb |-> bb, exc |-> "none"]

Raised(bb, exc) == [bb |-> bb, exc |-> exc]

\* s.replace(sub, "")
RECURSIVE RemoveSub(_, _)
RemoveSub(s, sub) ==
    LET Cut(first) == SubSeq(s, 1, first - 1)
                      \o RemoveSub(SubSeq(s, first + Len(sub), Len(s)), sub)
        Without(hits) == IF hits = {} THEN s ELSE Cut(Min(hits))
    IN  Without({i \in 1..(Len(s) - Len(sub) + 1) : Slice(s, i, i + Len(sub) - 1) = sub})

-----------------------------------------------------------------------------
(* processLogFile                                                          *)

RECURSIVE ScanLines(_, _, _, _, _)
ScanLines(bb, abstractFile, lines, description, artifact) ==
    IF lines = <<>> THEN bb
    ELSE ScanLines(identifyIpAddresses(bb, abstractFile, Head(lines), description,
                                       artifact),
                   abstractFile, Tail(lines), description, artifact)

processLogFile(bb, abstractFile, artifact) ==
    IF createTemporaryFile(abstractFile) # "none"
    THEN Raised(bb, createTemporaryFile(abstractFile))
    ELSE Returned(ScanLines(bb, abstractFile, ReadLines(abstractFile.content),
                            Fmt("Extracted from log file.", <<>>), artifact))

-----------------------------------------------------------------------------
(* processSessionFile                                                      *)

TVS == <<"T", "V", "S">>

ClientID == <<"C", "l", "i", "e", "n", "t", "I", "D">>

ServerID == <<"S", "e", "r", "v", "e", "r", "I", "D">>

\* how many lines the loop of line 516 reads after the header
SessionLineCount == 6

\* one pass of the loop body (lines 517-536) on the line read
SessionLine(bb, abstractFile, line, artifact) ==
    LET Description(fieldName) == Fmt("%s extracted from Session File", <<fieldName>>)
        \* lines 529-536: the rest of the line is both an ID and a username
        Server(extractedData, description) ==
            createTeamViewerUsernameArtefact(
                createTeamViewerIdArtefact(bb, abstractFile, extractedData,
                                           description, artifact),
                abstractFile, extractedData, description, artifact)
        Field(lineValues) ==
            IF Len(lineValues) < 1 THEN bb
            ELSE IF Len(lineValues) = 2 /\ lineValues[1] = ClientID
            THEN createTeamViewerIdArtefact(bb, abstractFile, lineValues[2],
                                            Description(lineValues[1]), artifact)
            ELSE IF Len(lineValues) >= 2 /\ lineValues[1] = ServerID
            THEN Server(Strip(RemoveSub(line, ServerID)), Description(lineValues[1]))
            ELSE bb
    IN  Field(Split(line))

\* the loop of line 516 from its n-th pass on; the n-th pass reads line n + 1
RECURSIVE SessionLoop(_, _, _, _, _)
SessionLoop(bb, abstractFile, lines, n, artifact) ==
    LET Pass(line, bb1) ==
            IF line = <<>> THEN bb1
            ELSE SessionLoop(SessionLine(bb1, abstractFile, line, artifact),
                             abstractFile, lines, n + 1, artifact)
    IN  IF n > SessionLineCount THEN bb
        ELSE Pass(ReadLine(lines, n + 1),
                  identifyIpAddresses(bb, abstractFile, ReadLine(lines, n + 1),
                      Fmt("Extracted from session file.", <<>>), artifact))

\* a test of the first line that would leave its line terminator aside
IsSessionMarker(line) == SelectSeq(line, LAMBDA c : c # "\n") = TVS

\* the test of line 515 on the first line as readline returns it
IsSessionHeader(line) == line = TVS

processSessionFile(bb, abstractFile, artifact) ==
    LET Opened(lines) ==
            IF IsSessionHeader(ReadLine(lines, 1))
            THEN Returned(SessionLoop(bb, abstractFile, lines, 1, artifact))
            ELSE Returned(bb)
    IN  IF createTemporaryFile(abstractFile) # "none"
        THEN Raised(bb, createTemporaryFile(abstractFile))
        ELSE Opened(ReadLines(abstractFile.content))

-----------------------------------------------------------------------------
(* processConfigFile                                                       *)

ConfigHeader ==
    <<"[", "T", "e", "a", "m", "V", "i", "e", "w", "e", "r", " ",
      "C", "o", "n", "f", "i", "g", "u", "r", "a", "t", "i", "o", "n", "]">>

targetID == <<"t", "a", "r", "g", "e", "t", "I", "D">>

\* lines 560-564
ConfigDescription(extractedId) ==
    IF StartsWith(extractedId, <<"m">>)
    THEN Fmt("Meeting ID extracted from Configuration File", <<>>)
    ELSE Fmt("Slave ID extracted from Configuration File", <<>>)

\* a test for equality with the header, where line 554 tests for containment
IsHeaderLine(line) == line = ConfigHeader

\* the test of line 554 on the first line
IsConfigHeader(line) == Contains(line, ConfigHeader)

processConfigFile(bb, abstractFile, artifact) ==
    LET \* lines 558-566 on the second line, split at "="
        Target(bb1, data) ==
            IF Len(data) = 2 /\ data[1] = targetID
            THEN Returned(createTeamViewerIdArtefact(bb1, abstractFile, data[2],
                              ConfigDescription(data[2]), artifact))
            ELSE Returned(bb1)
        Second(line) ==
            Target(identifyIpAddresses(bb, abstractFile, line,
                       Fmt("Extracted from configuration file.", <<>>), artifact),
                   SplitOn(line, "="))
        Opened(lines) ==
            IF IsConfigHeader(ReadLine(lines, 1)) THEN Second(ReadLine(lines, 2))
            ELSE Returned(bb)
    IN  IF createTemporaryFile(abstractFile) # "none"
        THEN Raised(bb, createTemporaryFile(abstractFile))
        ELSE Opened(ReadLines(abstractFile.content))

-----------------------------------------------------------------------------
(* datetime.strptime(s, "%d-%m-%Y %H:%M:%S") and time.mktime.              *)

DigitVal(c) == CHOOSE n \in 0..9 : HexChars[n + 1] = c

\* int(s) for a string of decimal digits
RECURSIVE ToInt(_)
ToInt(s) == IF s = <<>> THEN 0 ELSE 10 * ToInt(SubSeq(s, 1, Len(s) - 1)) + DigitVal(s[Len(s)])

NonZeroDigit == Digit \ {"0"}

\* the regular expressions _strptime compiles for each directive
DirectiveD(f) ==      \* 3[0-1]|[1-2]\d|0[1-9]|[1-9]
    \/ Len(f) = 2 /\ f[1] = "3" /\ f[2] \in {"0", "1"}
    \/ Len(f) = 2 /\ f[1] \in {"1", "2"} /\ f[2] \in Digit
    \/ Len(f) = 2 /\ f[1] = "0" /\ f[2] \in NonZeroDigit
    \/ Len(f) = 1 /\ f[1] \in NonZeroDigit

DirectiveM(f) ==      \* 1[0-2]|0[1-9]|[1-9]
    \/ Len(f) = 2 /\ f[1] = "1" /\ f[2] \in {"0", "1", "2"}
    \/ Len(f) = 2 /\ f[1] = "0" /\ f[2] \in NonZeroDigit
    \/ Len(f) = 1 /\ f[1] \in NonZeroDigit

DirectiveY(f) ==      \* \d\d\d\d
    Len(f) = 4 /\ \A i \in 1..4 : f[i] \in Digit

DirectiveH(f) ==      \* 2[0-3]|[0-1]\d|\d
    \/ Len(f) = 2 /\ f[1] = "2" /\ f[2] \in {"0", "1", "2", "3"}
    \/ Len(f) = 2 /\ f[1] \in {"0", "1"} /\ f[2] \in Digit
    \/ Len(f) = 1 /\ f[1] \in Digit

DirectiveMin(f) ==    \* [0-5]\d|\d
    \/ Len(f) = 2 /\ f[1] \in {"0", "1", "2", "3", "4", "5"} /\ f[2] \in Digit
    \/ Len(f) = 1 /\ f[1] \in Digit

DirectiveS(f) ==      \* 6[0-1]|[0-5]\d|\d
    \/ Len(f) = 2 /\ f[1] = "6" /\ f[2] \in {"0", "1"}
    \/ DirectiveMin(f)

IsLeap(y) == (y % 4 = 0 /\ y % 100 # 0) \/ y % 400 = 0

DaysInMonth(y, m) ==
    IF m = 2 THEN (IF IsLeap(y) THEN 29 ELSE 28)
    ELSE IF m \in {4, 6, 9, 11} THEN 30 ELSE 31

\* the fields <<day, month, year, hour, minute, second>> of s when the whole
\* of s matches the format, <<>> when it does not
StrptimeFields(s) ==
    LET Fields(d, t) ==
            IF /\ Len(d) = 3 /\ Len(t) = 3
               /\ DirectiveD(d[1]) /\ DirectiveM(d[2]) /\ DirectiveY(d[3])
               /\ DirectiveH(t[1]) /\ DirectiveMin(t[2]) /\ DirectiveS(t[3])
            THEN [i \in 1..6 |-> ToInt((d \o t)[i])]
            ELSE <<>>
        Halves(halves) ==
            IF Len(halves) = 2
            THEN Fields(SplitOn(halves[1], "-"), SplitOn(halves[2], ":"))
            ELSE <<>>
    IN  Halves(SplitOn(s, " "))

\* datetime.strptime: [ok, fields]; ok is FALSE where it raises ValueError
\* (no match, text left over, or a date or second datetime() refuses)
Strptime(s) ==
    LET Checked(f) ==
            IF /\ f # <<>>
               /\ f[3] >= 1
               /\ f[1] <= DaysInMonth(f[3], f[2])
               /\ f[6] <= 59
            THEN [ok |-> TRUE, fields |-> f]
            ELSE [ok |-> FALSE, fields |-> <<>>]
    IN  Checked(StrptimeFields(s))

\* days from 1970-01-01 to the civil date
DaysFromCivil(y, m, d) ==
    LET y2 == IF m <= 2 THEN y - 1 ELSE y
        era == y2 \div 400
        yoe == y2 - era * 400
        mp == (m + 9) % 12
        doy == (153 * mp + 2) \div 5 + d - 1
        doe == yoe * 365 + yoe \div 4 - yoe \div 100 + doy
    IN  era * 146097 + doe - 719468

\* int(time.mktime(t.timetuple())), the local time zone being UTC
Mktime(f) == DaysFromCivil(f[3], f[2], f[1]) * 86400 + f[4] * 3600 + f[5] * 60 + f[6]

-----------------------------------------------------------------------------
(* processConnectionFile and createTeamViewerConnectionArtefacts           *)

incoming == <<"i", "n", "c", "o", "m", "i", "n", "g">>

\* the direction read from the pattern that located the file, not from its path
DirectionOfMatch(abstractFile) ==
    IF abstractFile.match = "connections_incoming.txt" THEN "incoming" ELSE "outgoing"

\* lines 684-687
Direction(abstractFile) ==
    IF Contains(abstractFile.path, incoming) THEN "incoming" ELSE "outgoing"

\* direction.capitalize()
Capitalize(direction) == IF direction = "incoming" THEN "Incoming" ELSE "Outgoing"

\* the attributes if each were added as soon as its own string had parsed
TimestampsOneByOne(startString, endString) ==
    LET Attributes(parsed) ==
            (IF parsed[1].ok
             THEN << createAttribute("TSK_DATETIME_START", Mktime(parsed[1].fields)) >>
             ELSE <<>>)
            \o (IF parsed[1].ok /\ parsed[2].ok
                THEN << createAttribute("TSK_DATETIME_END", Mktime(parsed[2].fields)) >>
                ELSE <<>>)
    IN  Attributes([i \in 1..2 |-> Strptime(<<startString, endString>>[i])])

\* lines 728-740: both strings are parsed before either attribute is added,
\* and the ValueError of either parse is caught
TimestampAttributes(startString, endString) ==
    LET Attributes(parsed) ==
            IF parsed[1].ok /\ parsed[2].ok
            THEN << createAttribute("TSK_DATETIME_START", Mktime(parsed[1].fields)),
                    createAttribute("TSK_DATETIME_END", Mktime(parsed[2].fields)) >>
            ELSE <<>>
    IN  Attributes([i \in 1..2 |-> Strptime(<<startString, endString>>[i])])

\* the least number of tokens for which line 588 calls the record builder
MinConnectionTokens == 8

createTeamViewerConnectionArtefacts(bb, abstractFile, valueList, associatedArtifact) ==
    LET extractedId == valueList[1]
        \* lines 707-742: the connection record, fields being
        \* <<startString, endString, connectionType>>
        Connection(direction, fields, text) ==
            NewArtifact("TSK_TEAMVIEWER_CONNECTION", abstractFile,
                << createAttribute("TSK_DIRECTION", direction),
                   createAttribute("TSK_ASSOCIATED_ARTIFACT", associatedArtifact),
                   createAttribute("TSK_USER_ID", extractedId),
                   createAttribute("TSK_DESCRIPTION",
                       Fmt("%s %s connection with %s from %s until %s.",
                           <<Capitalize(direction), fields[3], extractedId,
                             fields[1], fields[2]>>)),
                   createAttribute("TSK_TEXT", text),
                   createAttribute("TSK_TEXT", text) >>
                \o TimestampAttributes(fields[1], fields[2]))
        \* lines 695-705
        Fields(direction) ==
            IF direction = "outgoing"
            THEN <<valueList[2] \o <<" ">> \o valueList[3],
                   valueList[4] \o <<" ">> \o valueList[5], valueList[7]>>
            ELSE <<valueList[3] \o <<" ">> \o valueList[4],
                   valueList[5] \o <<" ">> \o valueList[6], valueList[8]>>
        Username(bb1, direction) ==
            IF direction = "outgoing" THEN bb1
            ELSE createTeamViewerUsernameArtefact(bb1, abstractFile, valueList[2],
                     Fmt("Extracted from incoming connection file", <<>>),
                     associatedArtifact)
        Records(direction) ==
            Append(Username(createTeamViewerIdArtefact(bb, abstractFile, extractedId,
                                Fmt("Extracted from %s connection File.", <<direction>>),
                                associatedArtifact),
                            direction),
                   Connection(direction, Fields(direction), Join(valueList, <<"|">>)))
    IN  IF ~IsDigitStr(valueList[1]) THEN bb ELSE Records(Direction(abstractFile))

RECURSIVE ConnectionLines(_, _, _, _)
ConnectionLines(bb, abstractFile, lines, artifact) ==
    LET Connection(bb1, valueList) ==
            IF Len(valueList) >= MinConnectionTokens
            THEN createTeamViewerConnectionArtefacts(bb1, abstractFile, valueList,
                                                     artifact)
            ELSE bb1
    IN  IF lines = <<>> THEN bb
        ELSE ConnectionLines(
                 Connection(identifyIpAddresses(bb, abstractFile, Head(lines),
                                Fmt("Extracted from connection file.", <<>>), artifact),
                            Split(Head(lines))),
                 abstractFile, Tail(lines), artifact)

processConnectionFile(bb, abstractFile, artifact) ==
    IF createTemporaryFile(abstractFile) # "none"
    THEN Raised(bb, createTemporaryFile(abstractFile))
    ELSE Returned(ConnectionLines(bb, abstractFile, ReadLines(abstractFile.content),
                                  artifact))

-----------------------------------------------------------------------------
(* createRegistryArtifacts                                                 *)

\* re.findall("[0-9]+", e): the maximal runs of decimal digits, in order
DigitRuns(e) ==
    LET starts == {i \in 1..Len(e) : e[i] \in Digit /\ (i = 1 \/ e[i - 1] \notin Digit)}
        ends == {i \in 1..Len(e) : e[i] \in Digit /\ (i = Len(e) \/ e[i + 1] \notin Digit)}
    IN  [k \in 1..Cardinality(starts) |-> SubSeq(e, Nth(starts, k), Nth(ends, k))]

\* re.findall("[0-9A-Fa-f]{12}", s) scanning from i: each match is the next
\* 12 hexadecimal digits found, and the scan resumes right after it
RECURSIVE MacFindAllFrom(_, _)
MacFindAllFrom(s, i) ==
    LET Found(first) == <<SubSeq(s, first, first + 11)>> \o MacFindAllFrom(s, first + 12)
        Leftmost(hits) == IF hits = {} THEN <<>> ELSE Found(Min(hits))
    IN  Leftmost({j \in i..(Len(s) - 11) : \A k \in j..(j + 11) : s[k] \in HexDigit})

MacFindAll(s) == MacFindAllFrom(s, 1)

\* lines 417-452 for the entries still to handle: [bb, exc]
RECURSIVE FtEntries(_, _, _, _)
FtEntries(bb, abstractFile, entries, originalArtifact) ==
    LET e == Head(entries)
        Rest(bb2) == FtEntries(bb2, abstractFile, Tail(entries), originalArtifact)
        \* lines 448-452
        WithId(bb1, extractedId) ==
            IF extractedId # <<>>
            THEN createTeamViewerIdArtefact(bb1, abstractFile, extractedId,
                     Fmt("Extracted from File Transfer Registry Key", <<>>), Len(bb1))
            ELSE bb1
        \* lines 433-446
        Directory(extractedId, localPath, remotePath) ==
            Rest(WithId(Append(bb, NewArtifact("TSK_TEAMVIEWER_FT_START_DIRECTORY",
                            abstractFile,
                            << createAttribute("TSK_USER_ID", extractedId),
                               createAttribute("TSK_LOCAL_PATH", localPath),
                               createAttribute("TSK_REMOTE_PATH", remotePath),
                               createAttribute("TSK_ASSOCIATED_ARTIFACT",
                                               originalArtifact) >>)),
                        extractedId))
        \* line 431: extractedPaths[0].split("?")[1], with no "?" before the "|"
        Local(extractedId, localParts, remotePath) ==
            IF Len(localParts) < 2 THEN Raised(bb, "IndexError")
            ELSE Directory(extractedId, localParts[2], remotePath)
        \* lines 428-431
        Paths(extractedId, extractedPaths) ==
            IF Len(extractedPaths) > 1
            THEN Local(extractedId, SplitOn(extractedPaths[1], "?"), extractedPaths[2])
            ELSE Directory(extractedId, <<>>, <<>>)
        \* lines 424-426
        First(extractedIdList) ==
            IF Len(extractedIdList) > 0 THEN extractedIdList[1] ELSE <<>>
    IN  IF entries = <<>> THEN Returned(bb)
        ELSE IF Len(e) > 5 THEN Paths(First(DigitRuns(e)), SplitOn(e, "|"))
        ELSE Rest(bb)

RECURSIVE MacArtifacts(_, _, _, _)
MacArtifacts(bb, abstractFile, entries, originalArtifact) ==
    IF entries = <<>> THEN bb
    ELSE MacArtifacts(
             Append(bb, NewArtifact("TSK_TEAMVIEWER_MAC_ADDRESS", abstractFile,
                 << createAttribute("TSK_VALUE", Head(entries)),
                    createAttribute("TSK_ASSOCIATED_ARTIFACT", originalArtifact) >>)),
             abstractFile, Tail(entries), originalArtifact)

\* one pass of the loop of line 368, for the entry keyName: [bb, exc]
RegistryEntry(bb, registryNameValueDictionary, keyName, abstractFile) ==
    LET keyValue == registryNameValueDictionary[keyName]
        originalArtifact == Len(bb) + 1
        \* lines 479-482: the attribute added to whatever `artifact` names then
        associated == createAttribute("TSK_ASSOCIATED_ARTIFACT", originalArtifact)
        \* `artifact` still names the registry item: it gets the attribute
        Associated(bb2) == [bb2 EXCEPT ![originalArtifact].attrs = Append(@, associated)]
        \* lines 386-478 once the item is recorded and its value scanned
        Interpret(bb1) ==
            IF keyName = "InstallationDirectory"
            THEN Returned(Append(bb1, NewArtifact("TSK_INSTALLED_PROG", abstractFile,
                     << createAttribute("TSK_PROG_NAME",
                            <<"T", "e", "a", "m", "V", "i", "e", "w", "e", "r">>),
                        createAttribute("TSK_PATH", keyValue) >>
                     \o (IF "Version" \in DOMAIN registryNameValueDictionary
                         THEN << createAttribute("TSK_VERSION",
                                     registryNameValueDictionary["Version"]) >>
                         ELSE <<>>)
                     \o <<associated>>)))
            ELSE IF keyName = "ClientID"
            THEN Returned(createTeamViewerIdArtefact(bb1, abstractFile, keyValue,
                     Fmt("ID of the Client from Registry", <<>>), originalArtifact))
            ELSE IF keyName = "FT_Start_Directories"
            THEN FtEntries(bb1, abstractFile,
                     SplitOn(RemoveChar(RemoveChar(keyValue, "["), "]"), ","),
                     originalArtifact)
            ELSE IF keyName = "Username" \/ keyName = "Meeting_UserName"
            THEN Returned(Associated(createTeamViewerUsernameArtefact(bb1,
                     abstractFile, keyValue,
                     Fmt(IF keyName = "Meeting_UserName"
                         THEN "Meeting Username from Registry"
                         ELSE "Display Name from Registry", <<>>),
                     originalArtifact)))
            ELSE IF keyName = "LastMACUsed"
            THEN Returned(MacArtifacts(bb1, abstractFile, MacFindAll(keyValue),
                                       originalArtifact))
            ELSE Returned(bb1)
    IN  Interpret(identifyIpAddresses(
            Append(bb, NewArtifact("TSK_TEAMVIEWER_REGISTRY_ITEM", abstractFile,
                       << createAttribute("TSK_NAME", keyName),
                          createAttribute("TSK_VALUE", keyValue) >>)),
            abstractFile, keyValue,
            Fmt("Extracted from %s Registry key.", <<keyName>>), originalArtifact))

\* the loop of line 368 over the entries in the order `order`: [bb, exc]
RECURSIVE RegistryEntries(_, _, _, _)
RegistryEntries(bb, registryNameValueDictionary, order, abstractFile) ==
    LET Following(r) ==
            IF r.exc # "none" THEN r
            ELSE RegistryEntries(r.bb, registryNameValueDictionary, Tail(order),
                                 abstractFile)
    IN  IF order = <<>> THEN Returned(bb)
        ELSE Following(RegistryEntry(bb, registryNameValueDictionary, Head(order),
                                     abstractFile))

\* the orders in which a dictionary of these keys may be iterated
Orders(keys) ==
    {o \in [1..Cardinality(keys) -> keys] : \A i, j \in 1..Cardinality(keys) :
                                               o[i] = o[j] => i = j}

\* createRegistryArtifacts: the outcomes [bb, exc] it may have, one for each
\* order in which items() may enumerate the dictionary
createRegistryArtifacts(bb, registryNameValueDictionary, abstractFile) ==
    {RegistryEntries(bb, registryNameValueDictionary, order, abstractFile) :
        order \in Orders(DOMAIN registryNameValueDictionary)}

-----------------------------------------------------------------------------
(* processHive.  A hive file is an abstract file whose content is          *)
(* [opens, keys]: opens tells whether the hive reader can open the copy,   *)
(* keys maps each key path present in the hive (a list of key names from   *)
(* the root) to the tree of the key it leads to.                           *)

TEAMVIEWER_REGISTRY_KEY_PATHS == << <<"TeamViewer">>, <<"WOW6432Node", "TeamViewer">> >>

USER_HIVE_FILENAME == <<"N", "T", "U", "S", "E", "R", ".", "D", "A", "T">>

\* lines 343-345: the key names to follow from the root
RegKeyList(abstractFile, registryKeyPath) ==
    IF EndsWith(abstractFile.path, USER_HIVE_FILENAME)
    THEN <<"SOFTWARE">> \o registryKeyPath
    ELSE registryKeyPath

\* lines 346-356 for the key path registryKeyPath, from the blackboard bb
HiveKeyPath(bb, abstractFile, registryKeyPath) ==
    LET keys == abstractFile.content.keys
        Artifacts(walked) ==
            IF walked.exc # "none" THEN {Raised(bb, walked.exc)}
            ELSE createRegistryArtifacts(bb, walked.dict, abstractFile)
        Subkey(regKeyList) ==
            IF regKeyList \notin DOMAIN keys
            \* getSubkey raised NoSuchElementException: caught, next path
            THEN {Returned(bb)}
            ELSE Artifacts(processRegistryTree(keys[regKeyList]))
    IN  Subkey(RegKeyList(abstractFile, registryKeyPath))

\* the loop of line 342 over the key paths still to handle, from each of
\* `outcomes`: an exception leaves the loop
RECURSIVE HiveKeyPaths(_, _, _)
HiveKeyPaths(outcomes, abstractFile, registryKeyPaths) ==
    IF registryKeyPaths = <<>> THEN outcomes
    ELSE HiveKeyPaths(
             UNION {IF r.exc # "none" THEN {r}
                    ELSE HiveKeyPath(r.bb, abstractFile, Head(registryKeyPaths)) :
                    r \in outcomes},
             abstractFile, Tail(registryKeyPaths))

\* processHive: the outcomes [bb, exc] it may have
processHive(bb, abstractFile) ==
    IF createTemporaryFile(abstractFile) # "none"
    THEN {Raised(bb, createTemporaryFile(abstractFile))}
    ELSE IF ~abstractFile.content.opens THEN {Raised(bb, "RegistryParseException")}
    ELSE HiveKeyPaths({Returned(bb)}, abstractFile, TEAMVIEWER_REGISTRY_KEY_PATHS)

-----------------------------------------------------------------------------
(* The file record process creates for a located filesystem file           *)
(* (lines 281-296).                                                        *)

FILE_MATCH_DESCRIPTION_DICTIONARY ==
    [m \in {"connections_incoming.txt", "connections.txt", "TeamViewer%.log", "%.tvs",
            "%.tvc", "tvprint%.db", "tvchatfile%.db"} |->
        CASE m = "connections_incoming.txt" -> "Incoming TeamViewer Connections"
          [] m = "connections.txt" -> "Outgoing TeamViewer Connections"
          [] m = "TeamViewer%.log" -> "TeamViewer Program Log"
          [] m = "%.tvs" -> "TeamViewer Session Recording"
          [] m = "%.tvc" -> "TeamViewer Configuration File"
          [] m = "tvprint%.db" -> "TeamViewer Print Database"
          [] m = "tvchatfile%.db" -> "TeamViewer Chat Database"]

FILE_MATCH_TYPE_DICTIONARY ==
    [m \in DOMAIN FILE_MATCH_DESCRIPTION_DICTIONARY |->
        CASE m \in {"connections_incoming.txt", "connections.txt", "TeamViewer%.log"} ->
                "TSK_TEAMVIEWER_LOG"
          [] m = "%.tvs" -> "TSK_TEAMVIEWER_SESSION_RECORDING"
          [] m = "%.tvc" -> "TSK_TEAMVIEWER_CONFIG"
          [] m \in {"tvprint%.db", "tvchatfile%.db"} -> "TSK_TEAMVIEWER_DATABASE"]

FileArtifact(abstractFile) ==
    NewArtifact(FILE_MATCH_TYPE_DICTIONARY[abstractFile.match], abstractFile,
        << createAttribute("TSK_DESCRIPTION",
               Fmt(FILE_MATCH_DESCRIPTION_DICTIONARY[abstractFile.match], <<>>)),
           createAttribute("TSK_KEYWORD_REGEXP", abstractFile.match),
           createAttribute("TSK_PATH", abstractFile.path) >>)

-----------------------------------------------------------------------------
(* The IP scanner on its own: identifyIpAddresses applied to one text.     *)

\* the file and the parent artifact the scanner is called with
ScanFile == [id |-> 1, path |-> <<"/", "t">>, match |-> "TeamViewer%.log",
             content |-> <<>>, materializes |-> TRUE]

ScanParent == NewArtifact("TSK_TEAMVIEWER_LOG", ScanFile, <<>>)

MaxPieces == 3

IpPieces ==
    { <<"1", "0", ".", "0", ".", "0", ".", "1">>,
      <<"9", "9", "9", ".", "1", ".", "2", ".", "3">>,
      <<"1", "2", "3", "4", ".", "5", ".", "6", ".", "7">>,
      <<"1", ".", "2", ".", "3">>,
      <<"7">>, <<".">>, <<" ">>, <<"a">> }

RECURSIVE Concats(_, _)
Concats(pieces, n) ==
    IF n = 0 THEN {<<>>}
    ELSE LET shorter == Concats(pieces, n - 1)
         IN  shorter \cup {t \o p : t \in shorter, p \in pieces}

\* "foo 10.0.0.1 bar 999.1.2.3 baz"
IpExampleText ==
    <<"f", "o", "o", " ", "1", "0", ".", "0", ".", "0", ".", "1", " ", "b", "a", "r",
      " ", "9", "9", "9", ".", "1", ".", "2", ".", "3", " ", "b", "a", "z">>

InitIp ==
    /\ InitOperation
    /\ blackboard = <<ScanParent>>
    /\ arg \in Concats(IpPieces, MaxPieces) \cup {IpExampleText}
    /\ ret = <<>>

ScanIp ==
    /\ pc = "ready"
    /\ pc' = "done"
    /\ blackboard' = identifyIpAddresses(blackboard, ScanFile, arg,
                         Fmt("Extracted from log file.", <<>>), 1)
    /\ ret' = IpFindAll(arg)
    /\ UNCHANGED <<jobVars, arg>>

SpecIp == InitIp /\ [][ScanIp]_vars

\* The spans of s that are four groups of 1 to 3 decimal digits separated by
\* single dots, with a word edge on both sides.
QuadSpans(s) ==
    LET starts == {i \in 1..Len(s) :
                      s[i] \in Digit /\ (i = 1 \/ s[i - 1] \notin WordChar)}
        Group(i, l) == \A k \in i..(i + l - 1) : s[k] \in Digit
        Dot(i) == s[i] = "."
    IN  { <<q[1], q[1] + q[2] + q[3] + q[4] + q[5] + 2>> :
            q \in { q \in starts \X (1..3) \X (1..3) \X (1..3) \X (1..3) :
                      LET i == q[1]
                          a == i + q[2]
                          b == a + 1 + q[3]
                          c == b + 1 + q[4]
                          j == c + q[5]
                      IN  /\ j <= Len(s)
                          /\ Group(i, q[2]) /\ Dot(a)
                          /\ Group(a + 1, q[3]) /\ Dot(b)
                          /\ Group(b + 1, q[4]) /\ Dot(c)
                          /\ Group(c + 1, q[5])
                          /\ (j = Len(s) \/ s[j + 1] \notin WordChar) } }

\* the leftmost span starting at or after `from`, then the leftmost one after
\* it, and so on: the non-overlapping spans in left-to-right order
RECURSIVE LeftmostSpans(_, _)
LeftmostSpans(spans, from) ==
    LET c == {sp \in spans : sp[1] >= from}
    IN  IF c = {} THEN <<>>
        ELSE LET m == CHOOSE sp \in c : \A o \in c : sp[1] <= o[1]
             IN  <<m>> \o LeftmostSpans(spans, m[2] + 1)

ExpectedAddresses(s) ==
    LET sp == LeftmostSpans(QuadSpans(s), 1)
    IN  [k \in 1..Len(sp) |-> Slice(s, sp[k][1], sp[k][2])]

\* C6: for every text the scanner returns, from left to right, every
\* non-overlapping substring of four dot-separated groups of 1 to 3 digits
\* bounded by word edges, groups above 255 included; and it emits exactly one
\* IP address artifact per match, carrying the scanned text and the pattern.
C6_IpScan ==
    pc = "done" =>
        LET want == ExpectedAddresses(arg)
        IN  /\ ret = want
            /\ (arg = IpExampleText =>
                    ret = << <<"1", "0", ".", "0", ".", "0", ".", "1">>,
                             <<"9", "9", "9", ".", "1", ".", "2", ".", "3">> >>)
            /\ Len(blackboard) = 1 + Len(want)
            /\ blackboard[1] = ScanParent
            /\ \A k \in 1..Len(want) :
                   LET a == blackboard[k + 1]
                   IN  /\ a.type = "TSK_TEAMVIEWER_IP_ADDRESS"
                       /\ AttrOf(a, "TSK_VALUE") = want[k]
                       /\ AttrOf(a, "TSK_TEXT") = arg
                       /\ AttrOf(a, "TSK_KEYWORD_REGEXP") = regularExpressionString
                       /\ AttrOf(a, "TSK_ASSOCIATED_ARTIFACT") = 1

\* two matches in one text, one of them with a group above 255
C6_Witness ==
    /\ pc = "done"
    /\ arg = IpExampleText
    /\ Len(ret) = 2
    /\ Len(blackboard) = 3

-----------------------------------------------------------------------------
(* The value coercer on its own: getRegistryValueAsString on one value.    *)

MaxBytes == 3

RECURSIVE SeqsUpTo(_, _)
SeqsUpTo(S, n) ==
    IF n = 0 THEN {<<>>}
    ELSE LET shorter == SeqsUpTo(S, n - 1)
         IN  shorter \cup {Append(t, x) : t \in shorter, x \in S}

SomeStrings == { <<>>, <<"x">>, <<"C", ":", "\\", "T", "V">>, <<"1", ".", "2", ".", "3",
                   ".", "4">> }

CoerceInputs ==
    {[name |-> "v", type |-> t, data |-> d] :
        t \in {"REG_BINARY", "REG_NONE"}, d \in SeqsUpTo({-128, -85, -1, 0, 10, 127}, MaxBytes)}
    \cup {[name |-> "v", type |-> t, data |-> d] :
            t \in {"REG_SZ", "REG_EXPAND_SZ"}, d \in SomeStrings}
    \cup {[name |-> "v", type |-> "REG_MULTI_SZ", data |-> d] :
            d \in SeqsUpTo(SomeStrings, 2)}
    \cup {[name |-> "v", type |-> t, data |-> d] :
            t \in {"REG_DWORD", "REG_QWORD"}, d \in {0, 7, 15, 256, 65535}}

InitCoerce ==
    /\ InitOperation
    /\ blackboard = <<>>
    /\ arg \in CoerceInputs
    /\ ret = <<>>

Coerce ==
    /\ pc = "ready"
    /\ pc' = "done"
    /\ ret' = getRegistryValueAsString(arg)
    /\ UNCHANGED <<jobVars, blackboard, arg>>

SpecCoerce == InitCoerce /\ [][Coerce]_vars

KnownValueTypes == {"REG_SZ", "REG_EXPAND_SZ", "REG_MULTI_SZ", "REG_DWORD", "REG_QWORD"}

\* byte b as unsigned, in two lowercase hex digits
HexGroup(b) == Hex02(IF b < 0 THEN b + 256 ELSE b)

\* C5: for a value of no string or integer type with N raw bytes, the coercer
\* returns "Raw: " followed by the N two-digit lowercase hex groups in byte
\* order, adjacent groups joined by one space, with no trailing whitespace
\* (for N = 0 the prefix's own trailing space is trimmed).
C5_HexDump ==
    (pc = "done" /\ arg.type \notin KnownValueTypes) =>
        ret = RStrip(<<"R", "a", "w", ":", " ">>
                     \o Join([k \in 1..Len(arg.data) |-> HexGroup(arg.data[k])], <<" ">>))

\* what the code returns instead: every group, the first one too, is preceded
\* by a space, so two spaces follow "Raw:" whenever there is a byte
C5_AsCoded ==
    (pc = "done" /\ arg.type \notin KnownValueTypes) =>
        ret = <<"R", "a", "w", ":">>
              \o Flatten([k \in 1..Len(arg.data) |->
                             (IF k = 1 THEN <<" ", " ">> ELSE <<" ">>)
                             \o HexGroup(arg.data[k])])

-----------------------------------------------------------------------------
(* The tree walker on its own: processRegistryTree on one key tree.        *)

MaxKeys == 3

SZ(name, str) == [name |-> name, type |-> "REG_SZ", data |-> str]

KeyValueLists ==
    { <<>>,
      <<SZ("ClientID", <<"1">>)>>,
      <<SZ("ClientID", <<"2">>), SZ("Version", <<"1", "5">>)>>,
      <<[name |-> "ClientID", type |-> "REG_DWORD", data |-> 7],
        [name |-> "LastMACUsed", type |-> "REG_BINARY", data |-> <<0, -1>>]>> }

\* the parent vectors of the trees of n keys
RECURSIVE ParentVectors(_)
ParentVectors(n) ==
    IF n = 1 THEN {<<0>>}
    ELSE {Append(pv, q) : pv \in ParentVectors(n - 1), q \in 1..(n - 1)}

KeyTrees ==
    UNION { {[parent |-> pv, vals |-> vs, bad |-> b, badOp |-> op] :
                pv \in ParentVectors(n),
                vs \in [1..n -> KeyValueLists],
                b \in 0..n,
                op \in {"values", "subkeys"}} : n \in 1..MaxKeys }

InitWalk ==
    /\ InitOperation
    /\ blackboard = <<>>
    /\ arg \in {t \in KeyTrees : t.bad = 0 => t.badOp = "values"}
    /\ ret = <<>>

Walk ==
    /\ pc = "ready"
    /\ pc' = "done"
    /\ ret' = processRegistryTree(arg)
    /\ UNCHANGED <<jobVars, blackboard, arg>>

SpecWalk == InitWalk /\ [][Walk]_vars

\* the keys from the root down to key k
RECURSIVE KeyPath(_, _)
KeyPath(tree, k) == IF k = 1 THEN <<1>> ELSE Append(KeyPath(tree, tree.parent[k]), k)

IsPrefix(p, q) == Len(p) <= Len(q) /\ SubSeq(q, 1, Len(p)) = p

\* key x is key y or one of its ancestors
InSubtree(tree, y, x) == IsPrefix(KeyPath(tree, x), KeyPath(tree, y))

\* key x comes before key y in the order parent first, then the child
\* subtrees in enumeration order
VisitedBefore(tree, x, y) ==
    LET p == KeyPath(tree, x)
        q == KeyPath(tree, y)
    IN  /\ x # y
        /\ \/ IsPrefix(p, q)
           \/ \E i \in 1..Len(p) :
                 /\ i <= Len(q)
                 /\ SubSeq(p, 1, i - 1) = SubSeq(q, 1, i - 1)
                 /\ p[i] < q[i]

\* the places <<key, index>> where a value named n is stored
Occurrences(tree, n) ==
    UNION { {<<k, i>> : i \in {i \in 1..Len(tree.vals[k]) : tree.vals[k][i].name = n}} :
              k \in 1..Len(tree.parent) }

OccursBefore(tree, o1, o2) ==
    \/ VisitedBefore(tree, o1[1], o2[1])
    \/ o1[1] = o2[1] /\ o1[2] < o2[2]

AllValueNames == {"ClientID", "Version", "LastMACUsed"}

\* C4: for every key tree the reader can enumerate, the walk returns a map
\* whose names are exactly the value names found in the key and all its
\* descendants, each mapped to the coerced value visited last in the order
\* parent values first, then child subtrees in enumeration order; a key with
\* no subkeys yields exactly its own values.
C4_WalkLastWins ==
    (pc = "done" /\ arg.bad = 0) =>
        /\ ret.exc = "none"
        /\ DOMAIN ret.dict = {n \in AllValueNames : Occurrences(arg, n) # {}}
        /\ \A n \in DOMAIN ret.dict :
              \E o \in Occurrences(arg, n) :
                 /\ \A o2 \in Occurrences(arg, n) : ~OccursBefore(arg, o, o2)
                 /\ ret.dict[n] = getRegistryValueAsString(arg.vals[o[1]][o[2]])

\* a subkey redefines a value name of its parent, and the subkey's value wins
C4_Witness ==
    /\ pc = "done"
    /\ arg.bad = 0
    /\ Len(arg.parent) = 3
    /\ arg.parent = <<0, 1, 2>>
    /\ arg.vals[1] = <<SZ("ClientID", <<"1">>)>>
    /\ arg.vals[2] = <<SZ("ClientID", <<"2">>), SZ("Version", <<"1", "5">>)>>
    /\ arg.vals[3] = <<>>
    /\ ret.dict["ClientID"] = <<"2">>

\* C3: when the reader fails to enumerate the values or the subkeys of one
\* subkey, only that branch is abandoned: the walk still returns the pairs
\* of every key outside the failing subkey's subtree.
C3_BranchAbandoned ==
    (pc = "done" /\ arg.bad >= 2) =>
        /\ ret.exc = "none"
        /\ \A k \in 1..Len(arg.parent) :
              ~InSubtree(arg, k, arg.bad) =>
                  \A i \in 1..Len(arg.vals[k]) : arg.vals[k][i].name \in DOMAIN ret.dict

-----------------------------------------------------------------------------
(* Helpers of the statements about the file parsers.                       *)

\* the artifacts of one type, in creation order
OfType(bb, t) == SelectSeq(bb, LAMBDA a : a.type = t)

\* a line without its terminating newline
LineText(line) ==
    IF line # <<>> /\ line[Len(line)] = "\n" THEN SubSeq(line, 1, Len(line) - 1) ELSE line

TextFile(path, match, content) ==
    [id |-> 1, path |-> path, match |-> match, content |-> content,
     materializes |-> TRUE]

-----------------------------------------------------------------------------
(* The session-file parser on its own: processSessionFile on one file.     *)

MaxSessionLines == 2

SessionPath == <<"/", "t", "v", "/", "r", "e", "c", ".", "t", "v", "s">>

SessionFirstLines ==
    { <<"T", "V", "S", "\n">>, <<"T", "V", "S">>, <<"T", "V", "S", " ", "\n">>, <<"X", "V",
        "S", "\n">> }

SessionOtherLines ==
    { <<"C", "l", "i", "e", "n", "t", "I", "D", " ", "5", "5", "5", "\n">>,
      <<"S", "e", "r", "v", "e", "r", "I", "D", " ", "7", "7", " ", "B", "o", "b", "\n">>,
      <<"\n">>,
      <<"C", "l", "i", "e", "n", "t", "I", "D", " ", "5", " ", "5", "\n">>,
      <<"P", "e", "e", "r", " ", "1", "0", ".", "0", ".", "0", ".", "1", "\n">> }

\* the lines "TVS", "ClientID 55512345" and five empty lines
SessionExample ==
    <<"T", "V", "S", "\n", "C", "l", "i", "e", "n", "t", "I", "D", " ", "5", "5", "5",
      "1", "2", "3", "4", "5", "\n", "\n", "\n", "\n", "\n", "\n">>

SessionContents ==
    \* a header, six lines with an address and an eighth line `ClientID 555`
    LET SessionLong ==
            <<"T", "V", "S", "\n", "P", "e", "e", "r", " ", "1", "0", ".", "0", ".", "0", ".",
        "1", "\n", "P", "e", "e", "r", " ", "1", "0", ".", "0", ".", "0", ".", "1", "\n",
        "P", "e", "e", "r", " ", "1", "0", ".", "0", ".", "0", ".", "1", "\n", "P", "e",
        "e", "r", " ", "1", "0", ".", "0", ".", "0", ".", "1", "\n", "P", "e", "e", "r",
        " ", "1", "0", ".", "0", ".", "0", ".", "1", "\n", "P", "e", "e", "r", " ", "1",
        "0", ".", "0", ".", "0", ".", "1", "\n", "C", "l", "i", "e", "n", "t", "I", "D",
        " ", "5", "5", "5", "\n">>
    IN  {f \o Flatten(ls) : f \in SessionFirstLines,
                            ls \in SeqsUpTo(SessionOtherLines, MaxSessionLines)}
        \cup {SessionExample, SessionLong}

InitSession ==
    /\ InitOperation
    /\ arg \in {TextFile(SessionPath, "%.tvs", c) : c \in SessionContents}
    /\ blackboard = <<FileArtifact(arg)>>
    /\ ret = <<>>

ParseSession ==
    /\ pc = "ready"
    /\ pc' = "done"
    /\ LET r == processSessionFile(blackboard, arg, 1)
       IN  blackboard' = r.bb /\ ret' = r.exc
    /\ UNCHANGED <<jobVars, arg>>

SpecSession == InitSession /\ [][ParseSession]_vars

\* the lines 2..7 of the file that come before its first empty line
RECURSIVE SessionBody(_, _)
SessionBody(lines, n) ==
    IF n > 7 \/ n > Len(lines) \/ LineText(lines[n]) = <<>> THEN <<>>
    ELSE <<lines[n]>> \o SessionBody(lines, n + 1)

\* the values v of the lines that are exactly the two tokens `ClientID v`
ClientIdValues(body) ==
    LET hits == SelectSeq(body, LAMBDA l : Len(Split(l)) = 2 /\ Split(l)[1] = ClientID)
    IN  [k \in 1..Len(hits) |-> Split(hits[k])[2]]

\* C7: the session parser emits records only for a file whose first line is
\* the marker TVS; for such a file every following line (within the next 6)
\* of exactly two tokens `ClientID v` yields exactly one ID record of value
\* v; a file whose first line is not TVS yields no record at all.
C7_SessionClientId ==
    pc = "done" =>
        LET lines == ReadLines(arg.content)
            ids == OfType(blackboard, "TSK_TEAMVIEWER_ID")
            fromClient == SelectSeq(ids, LAMBDA a :
                              AttrOf(a, "TSK_DESCRIPTION").args = <<ClientID>>)
        IN  IF Len(lines) >= 1 /\ LineText(lines[1]) = TVS
            THEN LET want == ClientIdValues(SessionBody(lines, 2))
                 IN  /\ Len(fromClient) = Len(want)
                     /\ \A k \in 1..Len(want) : AttrOf(fromClient[k], "TSK_VALUE") = want[k]
            ELSE Len(blackboard) = 1

-----------------------------------------------------------------------------
(* The config-file parser on its own: processConfigFile on one file.       *)

ConfigPath == <<"/", "t", "v", "/", "a", ".", "t", "v", "c">>

ConfigFirstLines ==
    { <<"[", "T", "e", "a", "m", "V", "i", "e", "w", "e", "r", " ", "C", "o", "n", "f", "i",
        "g", "u", "r", "a", "t", "i", "o", "n", "]", "\n">>,
      <<"x", "[", "T", "e", "a", "m", "V", "i", "e", "w", "e", "r", " ", "C", "o", "n", "f",
        "i", "g", "u", "r", "a", "t", "i", "o", "n", "]", "y", "\n">>,
      <<"[", "T", "e", "a", "m", "V", "i", "e", "w", "e", "r", " ", "C", "o", "n", "f", "i",
        "g", "]", "\n">>,
      <<"[", "t", "e", "a", "m", "v", "i", "e", "w", "e", "r", " ", "c", "o", "n", "f", "i",
        "g", "u", "r", "a", "t", "i", "o", "n", "]", "\n">>,
      <<>> }

ConfigSecondLines ==
    { <<"t", "a", "r", "g", "e", "t", "I", "D", "=", "m", "1", "2", "\n">>,
      <<"t", "a", "r", "g", "e", "t", "I", "D", "=", "1", "2", "\n">>,
      <<"t", "a", "r", "g", "e", "t", "I", "D", "=", "1", "2">>,
      <<"t", "a", "r", "g", "e", "t", "I", "D", "=", "1", "=", "2", "\n">>,
      <<"T", "a", "r", "g", "e", "t", "I", "D", "=", "5", "\n">>,
      <<"t", "a", "r", "g", "e", "t", "I", "D", " ", "5", "\n">>,
      <<"i", "p", "=", "1", "0", ".", "0", ".", "0", ".", "1", "\n">>,
      <<"t", "a", "r", "g", "e", "t", "I", "D", "=", "1", "0", ".", "0", ".", "0", ".", "1",
        "\n">>,
      <<"t", "a", "r", "g", "e", "t", "I", "D", "=", "\n">>,
      <<"=", "t", "a", "r", "g", "e", "t", "I", "D", "\n">>,
      <<>> }

ConfigThirdLines ==
    { <<>>,
      <<"t", "a", "r", "g", "e", "t", "I", "D", "=", "9", " ", "1", "0", ".", "9", ".", "9",
        ".", "9", "\n">>,
      <<"x", "\n">> }

InitConfig ==
    /\ InitOperation
    /\ arg \in {TextFile(ConfigPath, "%.tvc", a \o b \o c) :
                   a \in ConfigFirstLines, b \in ConfigSecondLines, c \in ConfigThirdLines}
    /\ blackboard = <<FileArtifact(arg)>>
    /\ ret = <<>>

ParseConfig ==
    /\ pc = "ready"
    /\ pc' = "done"
    /\ LET r == processConfigFile(blackboard, arg, 1)
       IN  blackboard' = r.bb /\ ret' = r.exc
    /\ UNCHANGED <<jobVars, arg>>

SpecConfig == InitConfig /\ [][ParseConfig]_vars

\* the positions of character c in s
PositionsOf(s, c) == {i \in 1..Len(s) : s[i] = c}

\* line 2 is `targetID`, one `=`, and a value holding no further `=`
IsTargetIdLine(line) ==
    /\ Cardinality(PositionsOf(line, "=")) = 1
    /\ \E i \in PositionsOf(line, "=") : SubSeq(line, 1, i - 1) = targetID

\* what follows the `=` of the line, its line terminator included
AfterEquals(line) ==
    LET i == CHOOSE i \in PositionsOf(line, "=") : TRUE
    IN  SubSeq(line, i + 1, Len(line))

\* C8: the config parser emits an ID record exactly when line 1 contains
\* `[TeamViewer Configuration]` and line 2 splits on `=` into exactly two
\* parts of which the first is `targetID`; its value is the part after `=`
\* (as read, line terminator included), described as a Meeting ID when the
\* value starts with `m` and as a Slave ID otherwise; without the header
\* nothing is emitted, IP mentions included, and every record comes from
\* line 2: no later line is read.
C8_ConfigTargetId ==
    pc = "done" =>
        LET lines == ReadLines(arg.content)
            line1 == ReadLine(lines, 1)
            line2 == ReadLine(lines, 2)
            ids == OfType(blackboard, "TSK_TEAMVIEWER_ID")
            ips == OfType(blackboard, "TSK_TEAMVIEWER_IP_ADDRESS")
            header == \E i \in 1..Len(line1) :
                          /\ i + Len(ConfigHeader) - 1 <= Len(line1)
                          /\ \A k \in 1..Len(ConfigHeader) : line1[i + k - 1] = ConfigHeader[k]
        IN  /\ ret = "none"
            /\ Len(ids) = (IF header /\ IsTargetIdLine(line2) THEN 1 ELSE 0)
            /\ \A k \in 1..Len(ids) :
                  /\ AttrOf(ids[k], "TSK_VALUE") = AfterEquals(line2)
                  /\ AttrOf(ids[k], "TSK_DESCRIPTION").fmt =
                        (IF AfterEquals(line2) # <<>> /\ AfterEquals(line2)[1] = "m"
                         THEN "Meeting ID extracted from Configuration File"
                         ELSE "Slave ID extracted from Configuration File")
                  /\ AttrOf(ids[k], "TSK_ASSOCIATED_ARTIFACT") = 1
            /\ (~header => Len(blackboard) = 1)
            /\ Len(blackboard) = 1 + Len(ids) + Len(ips)
            /\ Len(ips) = (IF header THEN Len(ExpectedAddresses(line2)) ELSE 0)
            /\ \A k \in 1..Len(ips) : AttrOf(ips[k], "TSK_TEXT") = line2

\* a Meeting ID is emitted from line 2 while a third line with a further
\* targetID and an IP address is present and ignored
C8_Witness ==
    /\ pc = "done"
    /\ arg.content = <<"[", "T", "e", "a", "m", "V", "i", "e", "w", "e", "r", " ", "C", "o",
                       "n", "f", "i", "g", "u", "r", "a", "t", "i", "o", "n", "]", "\n">>
                     \o <<"t", "a", "r", "g", "e", "t", "I", "D", "=", "m", "1", "2", "\n">>
                     \o <<"t", "a", "r", "g", "e", "t", "I", "D", "=", "9", " ", "1", "0",
                          ".", "9", ".", "9", ".", "9", "\n">>
    /\ Len(blackboard) = 2
    /\ blackboard[2].type = "TSK_TEAMVIEWER_ID"
    /\ AttrOf(blackboard[2], "TSK_DESCRIPTION").fmt
           = "Meeting ID extracted from Configuration File"

\* what the code does on every session file: nothing is emitted, because the
\* first line as read keeps its newline and only a file that is exactly
\* "TVS" passes the test, and that file has no further line
C7_AsCoded == pc = "done" => (ret = "none" /\ Len(blackboard) = 1)

-----------------------------------------------------------------------------
(* The connection-file parser on its own: processConnectionFile on a file. *)

MaxConnLines == 2

ConnPaths ==
    { <<"/", "t", "v", "/", "c", "o", "n", "n", "e", "c", "t", "i", "o", "n", "s", ".",
        "t", "x", "t">>,
      <<"/", "t", "v", "/", "c", "o", "n", "n", "e", "c", "t", "i", "o", "n", "s", "_",
        "i", "n", "c", "o", "m", "i", "n", "g", ".", "t", "x", "t">>,
      <<"/", "i", "n", "c", "o", "m", "i", "n", "g", "/", "c", "o", "n", "n", "e", "c",
        "t", "i", "o", "n", "s", ".", "t", "x", "t">> }

PeerIds == { <<"1", "2", "3", "4", "5", "6", "7", "8", "9">>, <<"1", "2", "a", "4", "5",
               "6", "7", "8", "9">> }

StartDates == { <<"0", "1", "-", "0", "2", "-", "2", "0", "2", "1">>, <<"3", "1", "-", "0",
                  "2", "-", "2", "0", "2", "1">> }

EndTimes == { <<"1", "0", ":", "0", "5", ":", "0", "0">>, <<"1", "0", ":", "0", "5", ":",
                "6", "0">> }

tenOClock == <<"1", "0", ":", "0", "0", ":", "0", "0">>

firstOfFebruary == <<"0", "1", "-", "0", "2", "-", "2", "0", "2", "1">>

\* <Slave ID> <Start Date> <Start Time> <End Date> <End Time> <Windows User>
\* <Connection Type> <Session ID>
OutgoingTokens(id, sd, et) ==
    <<id, sd, tenOClock, firstOfFebruary, et, <<"w", "i", "n", "u", "s", "e", "r">>,
      <<"V", "P", "N">>, <<"s", "e", "s", "s", "1">>>>

\* <Controller ID> <Display Name> <Start Date> <Start Time> <End Date> <End Time>
\* <Windows User> <Connection Type> <Session ID>
IncomingTokens(id, sd, et) ==
    <<id, <<"B", "o", "b">>, sd, tenOClock, firstOfFebruary, et, <<"w", "i", "n", "u", "s",
      "e", "r">>,
      <<"R", "e", "m", "o", "t", "e", "C", "o", "n", "t", "r", "o", "l">>, <<"s", "e", "s",
        "s", "1">>>>

ConnTokenLists ==
    {OutgoingTokens(id, sd, et) : id \in PeerIds, sd \in StartDates, et \in EndTimes}
    \cup {IncomingTokens(<<"1", "2", "3", "4", "5", "6", "7", "8", "9">>, sd,
                          <<"1", "0", ":", "0", "5", ":", "0", "0">>) : sd \in StartDates}
    \* an incoming line without its session ID: 8 tokens
    \cup {SubSeq(IncomingTokens(<<"1", "2", "3", "4", "5", "6", "7", "8", "9">>,
                                  firstOfFebruary,
                                <<"1", "0", ":", "0", "5", ":", "0", "0">>), 1, 8)}
    \* an outgoing line without its session ID: 7 tokens
    \cup {SubSeq(OutgoingTokens(<<"1", "2", "3", "4", "5", "6", "7", "8", "9">>,
                                  firstOfFebruary,
                                <<"1", "0", ":", "0", "5", ":", "0", "0">>), 1, 7)}
    \cup {<<<<"f", "r", "o", "m">>, <<"1", "0", ".", "0", ".", "0", ".", "1">>>>}

\* the outgoing line of the specification's example
ConnExampleTokens ==
    OutgoingTokens(<<"1", "2", "3", "4", "5", "6", "7", "8", "9">>, firstOfFebruary,
                   <<"1", "0", ":", "0", "5", ":", "0", "0">>)

\* the pattern findFiles located the file with
ConnMatch(path) ==
    IF EndsWith(path, <<"c", "o", "n", "n", "e", "c", "t", "i", "o", "n", "s", "_", "i",
                        "n", "c", "o", "m", "i", "n", "g", ".", "t", "x", "t">>)
    THEN "connections_incoming.txt"
    ELSE "connections.txt"

InitConn ==
    /\ InitOperation
    /\ arg \in {TextFile(path, ConnMatch(path), Flatten(ls)) :
                   path \in ConnPaths, ls \in SeqsUpTo({Join(t, <<" ">>) \o <<"\n">> : t \in ConnTokenLists},
                                    MaxConnLines)}
    /\ blackboard = <<FileArtifact(arg)>>
    /\ ret = <<>>

ParseConn ==
    /\ pc = "ready"
    /\ pc' = "done"
    /\ LET r == processConnectionFile(blackboard, arg, 1)
       IN  blackboard' = r.bb /\ ret' = r.exc
    /\ UNCHANGED <<jobVars, arg>>

SpecConn == InitConn /\ [][ParseConn]_vars

\* the token lists of the lines of at least 8 whitespace-separated tokens
\* whose first token is all decimal digits, in file order
ConnectionTokens(content) ==
    LET lines == ReadLines(content)
        tokens == [k \in 1..Len(lines) |-> Split(lines[k])]
    IN  SelectSeq(tokens, LAMBDA t :
            Len(t) >= 8 /\ \A i \in 1..Len(t[1]) : t[1][i] \in Digit)

PathHasIncoming(path) ==
    \E i \in 1..Len(path) :
        /\ i + 7 <= Len(path)
        /\ <<path[i], path[i + 1], path[i + 2], path[i + 3], path[i + 4], path[i + 5],
             path[i + 6], path[i + 7]>> = incoming

Spaced(a, b) == a \o <<" ">> \o b

\* C9: for a connection line of at least 8 tokens whose first token is all
\* digits, the record is INCOMING exactly when the file's path contains
\* "incoming" and OUTGOING otherwise; OUTGOING takes peer, start, end and
\* type from tokens 0, 1+2, 3+4 and 6, INCOMING from tokens 0, 2+3, 4+5 and
\* 7 with the display name from token 1; a display name is recorded only
\* for INCOMING.  (Token k of the claim is t[k + 1] here.)
C9_ConnectionLayout ==
    pc = "done" =>
        LET want == ConnectionTokens(arg.content)
            conns == OfType(blackboard, "TSK_TEAMVIEWER_CONNECTION")
            names == OfType(blackboard, "TSK_TEAMVIEWER_USERNAME")
            inc == PathHasIncoming(arg.path)
        IN  /\ Len(conns) = Len(want)
            /\ Len(names) = (IF inc THEN Len(want) ELSE 0)
            /\ \A k \in 1..Len(want) :
                  LET t == want[k]
                      a == conns[k]
                  IN  /\ AttrOf(a, "TSK_DIRECTION") = (IF inc THEN "incoming" ELSE "outgoing")
                      /\ AttrOf(a, "TSK_USER_ID") = t[1]
                      /\ ~HasAttr(a, "TSK_VALUE") /\ ~HasAttr(a, "TSK_USER_NAME")
                      /\ AttrOf(a, "TSK_DESCRIPTION").args =
                            (IF inc
                             THEN <<"Incoming", t[8], t[1], Spaced(t[3], t[4]),
                                    Spaced(t[5], t[6])>>
                             ELSE <<"Outgoing", t[7], t[1], Spaced(t[2], t[3]),
                                    Spaced(t[4], t[5])>>)
                      /\ (inc => AttrOf(names[k], "TSK_VALUE") = t[2])
                      /\ (t = ConnExampleTokens /\ ~inc =>
                             /\ AttrOf(a, "TSK_DATETIME_START") = 1612173600
                             /\ AttrOf(a, "TSK_DATETIME_END") = 1612173900)

\* an 8-token line of a file whose path contains "incoming": INCOMING, with a
\* display name and both timestamps
C9_Witness ==
    /\ pc = "done"
    /\ PathHasIncoming(arg.path)
    /\ Len(OfType(blackboard, "TSK_TEAMVIEWER_CONNECTION")) = 1
    /\ Len(OfType(blackboard, "TSK_TEAMVIEWER_USERNAME")) = 1
    /\ AttrOf(OfType(blackboard, "TSK_TEAMVIEWER_CONNECTION")[1], "TSK_DIRECTION") = "incoming"
    /\ Len(ConnectionTokens(arg.content)[1]) = 8
    /\ HasAttr(OfType(blackboard, "TSK_TEAMVIEWER_CONNECTION")[1], "TSK_DATETIME_START")

\* the strings the files above can form that are a day-month-year
\* hour:minute:second date and time
ValidStamps ==
    { Spaced(firstOfFebruary, tenOClock),
      Spaced(firstOfFebruary, <<"1", "0", ":", "0", "5", ":", "0", "0">>) }

\* the start and end strings of a record, as its description carries them
StartStringOf(a) == AttrOf(a, "TSK_DESCRIPTION").args[4]

EndStringOf(a) == AttrOf(a, "TSK_DESCRIPTION").args[5]

\* C10: in every connection record the start time is present if and only if
\* the end time is, and both are present exactly when both the start string
\* and the end string parse as day-month-year hour:minute:second; when one
\* does not parse the record is still emitted with its peer ID and neither
\* timestamp, no exception escapes, and the remaining lines of the file are
\* still processed (there is one record per connection line).
C10_TimestampsBothOrNone ==
    pc = "done" =>
        LET want == ConnectionTokens(arg.content)
            conns == OfType(blackboard, "TSK_TEAMVIEWER_CONNECTION")
        IN  /\ ret = "none"
            /\ Len(conns) = Len(want)
            /\ \A k \in 1..Len(conns) :
                  LET a == conns[k]
                      both == /\ StartStringOf(a) \in ValidStamps
                              /\ EndStringOf(a) \in ValidStamps
                  IN  /\ HasAttr(a, "TSK_DATETIME_START") <=> HasAttr(a, "TSK_DATETIME_END")
                      /\ HasAttr(a, "TSK_DATETIME_START") <=> both
                      /\ AttrOf(a, "TSK_USER_ID") = want[k][1]
                      /\ AttrOf(a, "TSK_TEXT") = Join(want[k], <<"|">>)

\* a line whose end time does not parse, followed by a line that parses: two
\* records, the first with neither timestamp, the second with both
C10_Witness ==
    /\ pc = "done"
    /\ ~PathHasIncoming(arg.path)
    /\ LET conns == OfType(blackboard, "TSK_TEAMVIEWER_CONNECTION")
       IN  /\ Len(conns) = 2
           /\ StartStringOf(conns[1]) \in ValidStamps
           /\ EndStringOf(conns[1]) \notin ValidStamps
           /\ ~HasAttr(conns[1], "TSK_DATETIME_START")
           /\ ~HasAttr(conns[1], "TSK_DATETIME_END")
           /\ HasAttr(conns[2], "TSK_DATETIME_START")
           /\ HasAttr(conns[2], "TSK_DATETIME_END")

-----------------------------------------------------------------------------
(* The ingest job: startUp, then process over the files of a data source.  *)

\* the keys of ARTIFACT_TYPE_DISPLAY_NAME_DICTIONARY
ArtifactTypeNames ==
    << "TSK_TEAMVIEWER_REGISTRY_ITEM", "TSK_TEAMVIEWER_FT_START_DIRECTORY",
       "TSK_TEAMVIEWER_USERNAME", "TSK_TEAMVIEWER_ID", "TSK_TEAMVIEWER_MAC_ADDRESS",
       "TSK_TEAMVIEWER_LOG", "TSK_TEAMVIEWER_SESSION_RECORDING", "TSK_TEAMVIEWER_CONFIG",
       "TSK_TEAMVIEWER_DATABASE", "TSK_TEAMVIEWER_CONNECTION",
       "TSK_TEAMVIEWER_PARTICIPANT_ADDED", "TSK_TEAMVIEWER_MEETING_CREATED",
       "TSK_TEAMVIEWER_MEETING_PARTICIPANT_ADDED",
       "TSK_TEAMVIEWER_AUTHENTICATION_ATTEMPT", "TSK_TEAMVIEWER_REMOTE_REBOOT",
       "TSK_TEAMVIEWER_FILE_DOWNLOAD", "TSK_TEAMVIEWER_FILE_UPLOAD",
       "TSK_TEAMVIEWER_IP_ADDRESS" >>

AllArtifactTypes == {ArtifactTypeNames[i] : i \in 1..Len(ArtifactTypeNames)}

\* What the case database and the file system do during startUp:
\* failingType is the position of the artifact type whose lookup or creation
\* raises TskCoreException (0 when none does), mkdirFails tells whether
\* os.mkdir would raise os.error.

\* startUp as it would be if a failure of os.mkdir were ignored
StartUpIgnoringMkdir(types, dirExists, faults) ==
    LET typesOk == faults.failingType = 0
        ensured == {ArtifactTypeNames[i] : i \in 1..(IF typesOk THEN Len(ArtifactTypeNames)
                                                     ELSE faults.failingType - 1)}
    IN  [types |-> types \cup ensured,
         dirExists |-> dirExists \/ (typesOk /\ ~faults.mkdirFails),
         successful |-> IF typesOk THEN "True" ELSE "False"]

\* startUp: the artifact types and the temporary directory it leaves, and
\* the value it leaves in startUpSuccessful
startUp(types, dirExists, faults) ==
    LET typesOk == faults.failingType = 0
        \* the types before the failing one have been looked up or created
        ensured == {ArtifactTypeNames[i] : i \in 1..(IF typesOk THEN Len(ArtifactTypeNames)
                                                     ELSE faults.failingType - 1)}
        dirOk == dirExists \/ ~faults.mkdirFails
    IN  [types |-> types \cup ensured,
         dirExists |-> dirExists \/ (typesOk /\ ~faults.mkdirFails),
         successful |-> IF typesOk /\ dirOk THEN "True" ELSE "False"]

\* --- the files a data source may hold ---

MaxFiles == 3

\* HKLM SOFTWARE with a TeamViewer key: ClientID, Version and a subkey
MachineHive ==
    [path |-> <<"/", "w", "i", "n", "d", "o", "w", "s", "/", "s", "y", "s", "t", "e",
                "m", "3", "2", "/", "c", "o", "n", "f", "i", "g", "/", "S", "O", "F",
                "T", "W", "A", "R", "E">>,
     materializes |-> TRUE,
     content |-> [opens |-> TRUE,
                  keys |-> (<<"TeamViewer">> :>
                     [parent |-> <<0, 1>>,
                      vals |-> << <<SZ("ClientID", <<"1", "2", "3", "4", "5", "6", "7",
                                                     "8", "9">>),
                                    SZ("Version", <<"1", "5">>)>>,
                                  <<SZ("Username", <<"B", "o", "b">>)>> >>,
                      bad |-> 0, badOp |-> "values"])]]

\* a SOFTWARE file the hive reader cannot open
BrokenHive ==
    [path |-> <<"/", "w", "i", "n", "d", "o", "w", "s", "/", "s", "y", "s", "t", "e",
                "m", "3", "2", "/", "c", "o", "n", "f", "i", "g", "/", "S", "O", "F",
                "T", "W", "A", "R", "E">>,
     materializes |-> TRUE,
     content |-> [opens |-> FALSE, keys |-> << >>]]

\* NTUSER.DAT whose file transfer entry has no "?" before its "|"
UserHive ==
    [path |-> <<"/", "u", "s", "e", "r", "s", "/", "a", "/", "N", "T", "U", "S", "E",
                "R", ".", "D", "A", "T">>,
     materializes |-> TRUE,
     content |-> [opens |-> TRUE,
                  keys |-> (<<"SOFTWARE", "TeamViewer">> :>
                     [parent |-> <<0>>, bad |-> 0, badOp |-> "values",
                      vals |-> << <<SZ("FT_Start_Directories",
                                    <<"[", "1", "2", "3", "4", "5", "6", "7", "|",
                                      "/", "s", "r", "v", "/", "i", "n", "]">>)>> >>])]]

HiveLibrary == {MachineHive, BrokenHive, UserHive}

FilesystemLibrary ==
    { [path |-> <<"/", "t", "v", "/", "c", "o", "n", "n", "e", "c", "t", "i", "o", "n",
                  "s", ".", "t", "x", "t">>,
       match |-> "connections.txt", materializes |-> TRUE,
       content |-> Join(ConnExampleTokens, <<" ">>) \o <<"\n">>],
      [path |-> ConfigPath, match |-> "%.tvc", materializes |-> TRUE,
       content |-> <<"[", "T", "e", "a", "m", "V", "i", "e", "w", "e", "r", " ", "C",
                    "o", "n", "f", "i", "g", "u", "r", "a", "t", "i", "o", "n", "]",
                    "\n", "t", "a", "r", "g", "e", "t", "I", "D", "=", "m", "1", "2",
                    "\n">>],
      [path |-> <<"/", "t", "v", "/", "T", "e", "a", "m", "V", "i", "e", "w", "e", "r",
                  "1", "5", "_", "L", "o", "g", "f", "i", "l", "e", ".", "l", "o",
                  "g">>,
       match |-> "TeamViewer%.log", materializes |-> FALSE, content |-> <<>>],
      [path |-> <<"/", "t", "v", "/", "t", "v", "p", "r", "i", "n", "t", ".", "d",
                  "b">>,
       match |-> "tvprint%.db", materializes |-> TRUE, content |-> <<>>] }

\* the file f as the abstract file of ID id
WithId(f, id) == [n \in DOMAIN f \cup {"id"} |-> IF n = "id" THEN id ELSE f[n]]

\* what findFiles may return: the hive files, and the filesystem files in
\* the order in which the dictionary of line 262 enumerates them
Locatable ==
    LET NoRepeat(fs) == \A i, j \in 1..Len(fs) : fs[i] = fs[j] => i = j
    IN  {d \in [hives : SeqsUpTo(HiveLibrary, MaxFiles),
                files : SeqsUpTo(FilesystemLibrary, MaxFiles)] :
            \* no file is found twice, and at most MaxFiles files are found
            /\ Len(d.hives) + Len(d.files) <= MaxFiles
            /\ NoRepeat(d.hives) /\ NoRepeat(d.files)}

\* lines 298-306: the parser chosen by the match pattern
ParseFile(bb, abstractFile, artifact) ==
    IF abstractFile.match \in {"connections.txt", "connections_incoming.txt"}
    THEN processConnectionFile(bb, abstractFile, artifact)
    ELSE IF abstractFile.match = "TeamViewer%.log"
    THEN processLogFile(bb, abstractFile, artifact)
    ELSE IF abstractFile.match = "%.tvs"
    THEN processSessionFile(bb, abstractFile, artifact)
    ELSE IF abstractFile.match = "%.tvc"
    THEN processConfigFile(bb, abstractFile, artifact)
    ELSE Returned(bb)

Init ==
    /\ startUpSuccessful = "None"
    /\ caseArtifactTypes \in {{}, AllArtifactTypes}
    /\ tempDirExists \in BOOLEAN
    /\ pc = "new"
    /\ hiveFileList = <<>>
    /\ fsFileList = <<>>
    /\ filesToProcessCount = 0
    /\ filesProcessedCount = 0
    /\ progress = <<>>
    /\ blackboard = <<>>
    /\ result = "none"
    /\ arg \in [faults : [failingType : {0, 1, 4}, mkdirFails : BOOLEAN],
               tempDirExisted : BOOLEAN]
    /\ arg.tempDirExisted = tempDirExists
    /\ ret = "none"

StartUp ==
    /\ pc = "new"
    /\ LET r == startUp(caseArtifactTypes, tempDirExists, arg.faults)
       IN  /\ caseArtifactTypes' = r.types
           /\ tempDirExists' = r.dirExists
           /\ startUpSuccessful' = r.successful
    /\ pc' = "started"
    /\ UNCHANGED <<hiveFileList, fsFileList, filesToProcessCount, filesProcessedCount,
                   progress, blackboard, result, arg, ret>>

\* process, lines 234-241: the early return
ProcessRefuse ==
    /\ pc \in {"new", "started"}
    /\ startUpSuccessful # "True"
    /\ result' = "ERROR"
    /\ pc' = "returned"
    /\ UNCHANGED <<startUpSuccessful, caseArtifactTypes, tempDirExists, hiveFileList,
                   fsFileList, filesToProcessCount, filesProcessedCount, progress,
                   blackboard, arg, ret>>

\* process, lines 243-268: the files of interest are located and counted
ProcessLocate ==
    /\ pc \in {"new", "started"}
    /\ startUpSuccessful = "True"
    /\ \E d \in Locatable :
          /\ hiveFileList' = [i \in 1..Len(d.hives) |-> WithId(d.hives[i], i)]
          /\ fsFileList' = [i \in 1..Len(d.files) |->
                               WithId(d.files[i], Len(d.hives) + i)]
          /\ filesToProcessCount' = Len(d.hives) + Len(d.files)
    /\ filesProcessedCount' = 0
    /\ pc' = "processing"
    /\ UNCHANGED <<startUpSuccessful, caseArtifactTypes, tempDirExists, progress,
                   blackboard, result, arg, ret>>

\* process, lines 270-276: one pass of the loop over the hives
ProcessHive ==
    /\ pc = "processing"
    /\ filesProcessedCount < Len(hiveFileList)
    /\ \E r \in processHive(blackboard, hiveFileList[filesProcessedCount + 1]) :
          /\ blackboard' = r.bb
          /\ IF r.exc = "none"
             THEN /\ filesProcessedCount' = filesProcessedCount + 1
                  /\ progress' = Append(progress, filesProcessedCount + 1)
                  /\ UNCHANGED <<pc, result>>
             \* nothing in process catches it
             ELSE /\ pc' = "raised"
                  /\ result' = r.exc
                  /\ UNCHANGED <<filesProcessedCount, progress>>
    /\ UNCHANGED <<startUpSuccessful, caseArtifactTypes, tempDirExists, hiveFileList,
                   fsFileList, filesToProcessCount, arg, ret>>

\* process, lines 280-308: one pass of the loop over the filesystem files
ProcessFile ==
    /\ pc = "processing"
    /\ filesProcessedCount >= Len(hiveFileList)
    /\ filesProcessedCount < filesToProcessCount
    /\ LET abstractFile == fsFileList[filesProcessedCount - Len(hiveFileList) + 1]
           artifact == Len(blackboard) + 1
           r == ParseFile(Append(blackboard, FileArtifact(abstractFile)), abstractFile,
                          artifact)
       IN  /\ blackboard' = r.bb
           /\ IF r.exc = "none"
              THEN /\ filesProcessedCount' = filesProcessedCount + 1
                   /\ progress' = Append(progress, filesProcessedCount + 1)
                   /\ UNCHANGED <<pc, result>>
              ELSE /\ pc' = "raised"
                   /\ result' = r.exc
                   /\ UNCHANGED <<filesProcessedCount, progress>>
    /\ UNCHANGED <<startUpSuccessful, caseArtifactTypes, tempDirExists, hiveFileList,
                   fsFileList, filesToProcessCount, arg, ret>>

\* process, lines 310-311
ProcessReturn ==
    /\ pc = "processing"
    /\ filesProcessedCount = filesToProcessCount
    /\ result' = "OK"
    /\ pc' = "returned"
    /\ UNCHANGED <<startUpSuccessful, caseArtifactTypes, tempDirExists, hiveFileList,
                   fsFileList, filesToProcessCount, filesProcessedCount, progress,
                   blackboard, arg, ret>>

Next ==
    \/ StartUp
    \/ ProcessRefuse
    \/ ProcessLocate
    \/ ProcessHive
    \/ ProcessFile
    \/ ProcessReturn

Spec == Init /\ [][Next]_vars

\* the files still to be processed when the job is in this state
Unprocessed == filesToProcessCount - filesProcessedCount

\* C1: a failure while processing one file or one key path never prevents
\* the remaining files from being processed: once the files have been located,
\* process is left only by returning OK, every located file handled.
C1_BatchIsolation ==
    (startUpSuccessful = "True" /\ pc \notin {"new", "started", "processing"})
        => (pc = "returned" /\ result = "OK" /\ Unprocessed = 0)

\* what the code does instead: an exception raised under processHive or a
\* file parser leaves process, the failing file and those after it uncounted
C1_AsCoded ==
    pc = "raised" => (result \in {"IOException", "RegistryParseException", "IndexError"}
                      /\ Unprocessed >= 1)

\* C2: after startUp, startUpSuccessful is True exactly when no artifact type
\* failed and the temporary directory existed or could be created (and then
\* all the types and the directory exist); process returns ERROR exactly when
\* startUpSuccessful is not True, having located and parsed nothing, and no
\* later failure makes it return ERROR.
C2_SetupGate ==
    /\ startUpSuccessful # "None" =>
          /\ startUpSuccessful = "True" <=>
                (arg.faults.failingType = 0
                 /\ (arg.tempDirExisted \/ ~arg.faults.mkdirFails))
          /\ startUpSuccessful = "True" =>
                (AllArtifactTypes \subseteq caseArtifactTypes /\ tempDirExists)
    /\ (pc \in {"processing", "raised", "returned"} /\ startUpSuccessful # "True") =>
          /\ pc = "returned" /\ result = "ERROR"
          /\ hiveFileList = <<>> /\ fsFileList = <<>>
          /\ filesToProcessCount = 0 /\ progress = <<>> /\ blackboard = <<>>
    /\ result = "ERROR" => (pc = "returned" /\ startUpSuccessful # "True")

\* startUp failed to create the temporary directory and process returned ERROR
C2_Witness ==
    /\ pc = "returned" /\ result = "ERROR" /\ startUpSuccessful = "False"
    /\ arg.faults.failingType = 0 /\ arg.faults.mkdirFails /\ ~tempDirExists

-----------------------------------------------------------------------------
(* The registry interpreter on its own: createRegistryArtifacts on the     *)
(* dictionary of one key.                                                  *)

\* the hive file the dictionaries below are taken to come from
RegistryFile == WithId(MachineHive, 1)

MaxFtEntries == 2

MaxEntries == 3

\* file transfer entries: the documented form, no "|", "|" without "?", 5
\* characters, no digit, two "?", digits not in front, no ID and no remote
\* path, empty
FtEntryLibrary ==
    {
      <<"9", "5", "8", "2", "2", "3", "7", "3", "1", "?", "C", ":", "\\", "U", "s",
        "e", "r", "s", "\\", "C", "o", "n", "t", "r", "o", "l", "l", "e", "r", "\\",
        "D", "e", "s", "k", "t", "o", "p", "|", "C", ":", "/", "U", "s", "e", "r", "s",
        "/", "S", "l", "a", "v", "e", "/", "D", "e", "s", "k", "t", "o", "p">>,
      <<"1", "2", "3", "4", "5", "6", "7">>,
      <<"1", "2", "3", "4", "5", "6", "7", "|", "/", "s", "r", "v", "/", "i", "n">>,
      <<"1", "2", "?", "a", "b">>,
      <<"a", "b", "c", "d", "e", "f">>,
      <<"7", "7", "?", "C", ":", "/", "a", "?", "b", "|", "D", ":", "/", "c">>,
      <<"x", "9", "?", "/", "a", "/", "b", "|", "/", "c", "/", "d", "8", "8">>,
      <<"?", "/", "l", "o", "c", "|">>,
      <<>> }

\* the dictionaries interpreted: up to MaxEntries entries of the library,
\* and each file transfer and MAC value alone or beside a ClientID
RegistryDictionaries ==
    LET \* "[e1,e2]"
        FtValues == {<<"[">> \o Join(es, <<",">>) \o <<"]">> :
                        es \in SeqsUpTo(FtEntryLibrary, MaxFtEntries)}
        \* LastMACUsed values: 12, 13, 24 and 11 hexadecimal digits, a MAC
        \* address written with colons, two runs of 12 between other
        \* characters, empty
        MacValues ==
            {
              <<"0", "0", "1", "1", "a", "a", "b", "b", "c", "c", "d", "d">>,
              <<"0", "0", "1", "1", "a", "a", "b", "b", "c", "c", "d", "d", "9">>,
              <<"0", "0", "1", "1", "a", "a", "b", "b", "c", "c", "d", "d", "A", "A",
                "B", "B", "C", "C", "D", "D", "E", "E", "F", "F">>,
              <<"0", "0", "1", "1", "a", "a", "b", "b", "c", "c", "d">>,
              <<"0", "0", ":", "1", "1", ":", "a", "a", ":", "b", "b", ":", "c", "c",
                ":", "d", "d">>,
              <<"x", "0", "0", "1", "1", "a", "a", "b", "b", "c", "c", "d", "d", "y",
                "-", "A", "A", "B", "B", "C", "C", "D", "D", "E", "E", "F", "F">>,
              <<>> }
        \* a value for each name the interpreter knows, and two it does not
        RegistryValueLibrary ==
            ("InstallationDirectory" :> <<"C", ":", "/", "T", "V">>) @@
            ("Version" :> <<"1", "5">>) @@
            ("ClientID" :> <<"5">>) @@
            ("Username" :> <<"B", "o", "b">>) @@
            ("Meeting_UserName" :> <<"A", "l">>) @@
            ("Proxy_IP" :> <<"1", "0", ".", "0", ".", "0", ".", "1">>) @@
            ("LastMACUsed" :> <<"0", "0", "1", "1", "a", "a", "b", "b", "c", "c", "d", "d">>) @@
            ("FT_Start_Directories" :> <<"[", "1", "2", "3", "4", "5", "6", "7", "|", "/", "s", "r", "v", "/", "i", "n", "]">>) @@
            ("Always_Online" :> <<"1">>)
        Alone == {EmptyDict, DictSet(EmptyDict, "ClientID", <<"5">>)}
    IN  {[n \in names |-> RegistryValueLibrary[n]] :
            names \in {ns \in SUBSET DOMAIN RegistryValueLibrary :
                          Cardinality(ns) \in 1..MaxEntries}}
        \cup {DictSet(d, "FT_Start_Directories", v) : d \in Alone, v \in FtValues}
        \cup {DictSet(d, "LastMACUsed", v) : d \in Alone, v \in MacValues}

InitRegistry ==
    /\ InitOperation
    /\ arg \in RegistryDictionaries
    /\ blackboard = <<>>
    /\ ret = <<>>

InterpretRegistry ==
    /\ pc = "ready"
    /\ pc' = "done"
    /\ \E r \in createRegistryArtifacts(blackboard, arg, RegistryFile) :
          blackboard' = r.bb /\ ret' = r.exc
    /\ UNCHANGED <<jobVars, arg>>

SpecRegistry == InitRegistry /\ [][InterpretRegistry]_vars

\* the position of the first c in s, 0 when there is none
FirstOf(s, c) ==
    IF \E i \in 1..Len(s) : s[i] = c
    THEN CHOOSE i \in 1..Len(s) : s[i] = c /\ \A j \in 1..(i - 1) : s[j] # c
    ELSE 0

\* what comes before the first c of s (all of s when there is none)
BeforeFirst(s, c) == IF FirstOf(s, c) = 0 THEN s ELSE SubSeq(s, 1, FirstOf(s, c) - 1)

\* what comes after the first c of s (nothing when there is none)
AfterFirst(s, c) == IF FirstOf(s, c) = 0 THEN <<>> ELSE SubSeq(s, FirstOf(s, c) + 1, Len(s))

RECURSIVE CommaParts(_)
CommaParts(s) ==
    IF FirstOf(s, ",") = 0 THEN <<s>>
    ELSE <<BeforeFirst(s, ",")>> \o CommaParts(AfterFirst(s, ","))

\* the entries of the value that are at least 6 characters long, in order
LongFtEntries(value) ==
    SelectSeq(CommaParts(SelectSeq(value, LAMBDA ch : ch \notin {"[", "]"})),
              LAMBDA e : Len(e) >= 6)

\* the first run of decimal digits of e, empty when e has no digit
FirstDigitRun(e) ==
    LET digits == {i \in 1..Len(e) : e[i] \in Digit}
        first == CHOOSE i \in digits : \A j \in digits : i <= j
        last == CHOOSE i \in first..Len(e) :
                    /\ \A j \in first..i : e[j] \in Digit
                    /\ (i = Len(e) \/ e[i + 1] \notin Digit)
    IN  IF digits = {} THEN <<>> ELSE SubSeq(e, first, last)

\* an entry with no "|", or with a "|" and no "?" before it
MalformedFtEntry(e) == FirstOf(e, "|") = 0 \/ FirstOf(BeforeFirst(e, "|"), "?") = 0

\* an entry with a "|" and no "?" before it
UnsplittableFtEntry(e) == FirstOf(e, "|") # 0 /\ FirstOf(BeforeFirst(e, "|"), "?") = 0

FtExampleEntry ==
    <<"9", "5", "8", "2", "2", "3", "7", "3", "1", "?", "C", ":", "\\", "U", "s", "e",
      "r", "s", "\\", "C", "o", "n", "t", "r", "o", "l", "l", "e", "r", "\\", "D", "e",
      "s", "k", "t", "o", "p", "|", "C", ":", "/", "U", "s", "e", "r", "s", "/", "S",
      "l", "a", "v", "e", "/", "D", "e", "s", "k", "t", "o", "p">>

FtRecords(bb) == OfType(bb, "TSK_TEAMVIEWER_FT_START_DIRECTORY")

\* the ID records made from file transfer entries
FtIdRecords(bb) ==
    SelectSeq(OfType(bb, "TSK_TEAMVIEWER_ID"), LAMBDA a :
        AttrOf(a, "TSK_DESCRIPTION").fmt = "Extracted from File Transfer Registry Key")

\* the key has been interpreted and held file transfer directories
FtInterpreted == pc = "done" /\ "FT_Start_Directories" \in DOMAIN arg

\* C11: every file transfer entry of at least 6 characters yields one
\* directory record, also when it is malformed: with no "|" both paths are
\* empty, with a "|" but no "?" before it the local path is empty and the
\* remote path is kept; no error is raised, and the other values of the key
\* (here ClientID) are still interpreted.
C11_MalformedFtEntryKept ==
    FtInterpreted =>
        LET want == LongFtEntries(arg["FT_Start_Directories"])
            recs == FtRecords(blackboard)
        IN  /\ ret = "none"
            /\ Len(recs) = Len(want)
            /\ \A k \in 1..Len(want) :
                  MalformedFtEntry(want[k]) =>
                      /\ AttrOf(recs[k], "TSK_LOCAL_PATH") = <<>>
                      /\ AttrOf(recs[k], "TSK_REMOTE_PATH") = AfterFirst(want[k], "|")
            /\ "ClientID" \in DOMAIN arg =>
                  \E i \in 1..Len(blackboard) :
                      /\ blackboard[i].type = "TSK_TEAMVIEWER_ID"
                      /\ AttrOf(blackboard[i], "TSK_VALUE") = arg["ClientID"]

\* what the code does with malformed entries: an entry with no "|" yields a
\* record with both paths empty, and the first entry with a "|" and no "?"
\* before it raises IndexError, which ends the interpretation of the key
C11_AsCoded ==
    FtInterpreted =>
        LET want == LongFtEntries(arg["FT_Start_Directories"])
            recs == FtRecords(blackboard)
            bad == {k \in 1..Len(want) : UnsplittableFtEntry(want[k])}
        IN  /\ ret = (IF bad = {} THEN "none" ELSE "IndexError")
            /\ Len(recs) = (IF bad = {} THEN Len(want)
                            ELSE (CHOOSE k \in bad : \A j \in bad : k <= j) - 1)
            /\ \A k \in 1..Len(recs) :
                  FirstOf(want[k], "|") = 0 =>
                      /\ AttrOf(recs[k], "TSK_LOCAL_PATH") = <<>>
                      /\ AttrOf(recs[k], "TSK_REMOTE_PATH") = <<>>

\* C12: (in the runs that raise nothing) the directory records are, in
\* order, one for each entry of at least 6 characters of the value without
\* its brackets, split on ","; the peer ID is the first run of digits of the
\* entry (empty if none), the local path all that follows the first "?" of
\* the part before "|", the remote path the part after "|"; and there is
\* one ID record for each entry whose peer ID is not empty.
C12_FtEntryFields ==
    (FtInterpreted /\ ret = "none") =>
        LET want == LongFtEntries(arg["FT_Start_Directories"])
            recs == FtRecords(blackboard)
            withId == SelectSeq(want, LAMBDA e : FirstDigitRun(e) # <<>>)
            ids == FtIdRecords(blackboard)
        IN  /\ Len(recs) = Len(want)
            /\ \A k \in 1..Len(want) :
                  /\ AttrOf(recs[k], "TSK_USER_ID") = FirstDigitRun(want[k])
                  /\ AttrOf(recs[k], "TSK_LOCAL_PATH")
                        = (IF FirstOf(want[k], "|") = 0 THEN <<>>
                           ELSE AfterFirst(BeforeFirst(want[k], "|"), "?"))
                  /\ AttrOf(recs[k], "TSK_REMOTE_PATH") = AfterFirst(want[k], "|")
                  /\ (want[k] = FtExampleEntry =>
                         AttrOf(recs[k], "TSK_USER_ID")
                             = <<"9", "5", "8", "2", "2", "3", "7", "3", "1">>)
            /\ Len(ids) = Len(withId)
            /\ \A k \in 1..Len(ids) : AttrOf(ids[k], "TSK_VALUE") = FirstDigitRun(withId[k])

\* what the code takes as the local path: what lies between the first "?"
\* and the next one of the part before "|"
C12_AsCoded ==
    (FtInterpreted /\ ret = "none") =>
        LET want == LongFtEntries(arg["FT_Start_Directories"])
            recs == FtRecords(blackboard)
        IN  /\ Len(recs) = Len(want)
            /\ \A k \in 1..Len(want) :
                  /\ AttrOf(recs[k], "TSK_USER_ID") = FirstDigitRun(want[k])
                  /\ AttrOf(recs[k], "TSK_LOCAL_PATH")
                        = (IF FirstOf(want[k], "|") = 0 THEN <<>>
                           ELSE BeforeFirst(AfterFirst(BeforeFirst(want[k], "|"), "?"), "?"))
                  /\ AttrOf(recs[k], "TSK_REMOTE_PATH") = AfterFirst(want[k], "|")
            /\ Len(FtIdRecords(blackboard))
                  = Len(SelectSeq(want, LAMBDA e : FirstDigitRun(e) # <<>>))

-----------------------------------------------------------------------------
(* Running a parser twice on the same input: the second run finds on the   *)
(* blackboard what the first run left there.                               *)
(* An input is [file, dict, order]: a located file to record and parse as  *)
(* lines 281-306 do (dict is empty), or the dictionary of a key of the     *)
(* hive `file` with the order in which items() enumerates it.  That order  *)
(* is a function of the dictionary's contents, so both runs use the same.  *)

InitRerun ==
    LET Located(f) == [file |-> f, dict |-> EmptyDict, order |-> <<>>]
    IN  /\ InitOperation
        /\ arg \in {Located(TextFile(path, ConnMatch(path), Join(t, <<" ">>) \o <<"\n">>)) :
                       path \in ConnPaths, t \in ConnTokenLists}
                   \cup {Located(WithId(f, 1)) : f \in FilesystemLibrary}
                   \cup {Located(TextFile(SessionPath, "%.tvs", c)) :
                            c \in {SessionExample, TVS}}
                   \cup UNION {{[file |-> RegistryFile, dict |-> d, order |-> o] :
                                   o \in Orders(DOMAIN d)} :
                               d \in {e \in RegistryDictionaries :
                                         Cardinality(DOMAIN e) <= 2}}
        /\ blackboard = <<>>
        /\ ret = <<>>

\* one run of the parser of the input on the blackboard as it is; ret keeps,
\* for each run, the ID of its first record and the exception that ended it
Rerun ==
    /\ pc \in {"ready", "once"}
    /\ pc' = (IF pc = "ready" THEN "once" ELSE "twice")
    /\ \E r \in {IF arg.order # <<>>
                 THEN RegistryEntries(blackboard, arg.dict, arg.order, arg.file)
                 ELSE ParseFile(Append(blackboard, FileArtifact(arg.file)), arg.file,
                                Len(blackboard) + 1)} :
          /\ blackboard' = r.bb
          /\ ret' = Append(ret, [first |-> Len(blackboard) + 1, exc |-> r.exc])
    /\ UNCHANGED <<jobVars, arg>>

SpecRerun == InitRerun /\ [][Rerun]_vars

\* the record a without the identifiers generated for the run it belongs to:
\* each reference to another record counts from the first record of the run
WithoutIds(a, first) ==
    [type |-> a.type,
     attrs |-> [i \in 1..Len(a.attrs) |->
                   IF a.attrs[i][1] = "TSK_ASSOCIATED_ARTIFACT"
                   THEN <<a.attrs[i][1], a.attrs[i][2] - first>>
                   ELSE a.attrs[i]]]

\* the records of the run that wrote blackboard[first..last]
RecordsOfRun(first, last) ==
    [i \in 1..(last - first + 1) |-> WithoutIds(blackboard[first + i - 1], first)]

-----------------------------------------------------------------------------
(* The records of the lines of a connection file (under SpecConn).         *)

\* each line once for every address the scan is to find in it, in order
RECURSIVE ScannedTexts(_)
ScannedTexts(lines) ==
    IF lines = <<>> THEN <<>>
    ELSE [k \in 1..Len(ExpectedAddresses(Head(lines))) |-> Head(lines)]
         \o ScannedTexts(Tail(lines))

\* C14: the IP scan is applied to every line of a connection file; a
\* connection record is emitted exactly for the lines of at least 8
\* whitespace-separated tokens whose first token is all decimal digits,
\* each with one ID record for the peer and, exactly when the direction is
\* incoming, one username record; any other line emits none of the three,
\* and no line is an error.
C14_ConnectionLineRecords ==
    pc = "done" =>
        LET want == ConnectionTokens(arg.content)
            conns == OfType(blackboard, "TSK_TEAMVIEWER_CONNECTION")
            ids == OfType(blackboard, "TSK_TEAMVIEWER_ID")
            names == OfType(blackboard, "TSK_TEAMVIEWER_USERNAME")
            ips == OfType(blackboard, "TSK_TEAMVIEWER_IP_ADDRESS")
            texts == ScannedTexts(ReadLines(arg.content))
        IN  /\ ret = "none"
            /\ Len(conns) = Len(want)
            /\ Len(ids) = Len(want)
            /\ Len(names) = (IF PathHasIncoming(arg.path) THEN Len(want) ELSE 0)
            /\ \A k \in 1..Len(want) :
                  /\ AttrOf(ids[k], "TSK_VALUE") = want[k][1]
                  /\ AttrOf(conns[k], "TSK_USER_ID") = want[k][1]
            /\ Len(ips) = Len(texts)
            /\ \A k \in 1..Len(texts) : AttrOf(ips[k], "TSK_TEXT") = texts[k]
            /\ Len(blackboard) = 1 + Len(conns) + Len(ids) + Len(names) + Len(ips)

\* an outgoing file of two lines: a line of 8 tokens whose first token is
\* not a number, which yields nothing, and a line of 2 tokens with an IP
\* address, which yields the address only
C14_Witness ==
    /\ pc = "done"
    /\ ~PathHasIncoming(arg.path)
    /\ LET lines == ReadLines(arg.content)
       IN  /\ Len(lines) = 2
           /\ Len(Split(lines[1])) = 8
           /\ Split(lines[1])[1] = <<"1", "2", "a", "4", "5", "6", "7", "8", "9">>
           /\ Len(Split(lines[2])) = 2
    /\ Len(blackboard) = 2
    /\ blackboard[2].type = "TSK_TEAMVIEWER_IP_ADDRESS"

-----------------------------------------------------------------------------
(* The lines a session file's records come from (under SpecSession).       *)

\* the lines after a header line TVS that the parser is to look at
SessionExamined(lines) ==
    IF Len(lines) >= 1 /\ LineText(lines[1]) = TVS THEN SessionBody(lines, 2)
    ELSE <<>>

\* the value an ID or username record takes from a line
ValueFromLine(value, line) ==
    LET tokens == Split(line)
    IN  \/ Len(tokens) = 2 /\ tokens[1] = ClientID /\ value = tokens[2]
        \/ /\ Len(tokens) >= 2 /\ tokens[1] = ServerID
           /\ value = Strip(RemoveSub(line, ServerID))

-----------------------------------------------------------------------------
(* The records of a registry value map (under SpecRegistry).               *)

\* the IP records made from the value of the key keyName
IpRecordsOfKey(bb, keyName) ==
    SelectSeq(OfType(bb, "TSK_TEAMVIEWER_IP_ADDRESS"), LAMBDA a :
        AttrOf(a, "TSK_DESCRIPTION").args = <<keyName>>)

\* the key names the interpreter treats specially
SpecialKeys ==
    {"InstallationDirectory", "ClientID", "FT_Start_Directories", "Username",
     "Meeting_UserName", "LastMACUsed"}

\* one generic record per entry, every value scanned, the installed program
\* recorded for InstallationDirectory, nothing typed for the other keys
GenericAndInstalled ==
    LET items == OfType(blackboard, "TSK_TEAMVIEWER_REGISTRY_ITEM")
        progs == OfType(blackboard, "TSK_INSTALLED_PROG")
    IN  /\ Len(items) = Cardinality(DOMAIN arg)
        /\ \A k \in DOMAIN arg :
              /\ \E i \in 1..Len(items) : /\ AttrOf(items[i], "TSK_NAME") = k
                                          /\ AttrOf(items[i], "TSK_VALUE") = arg[k]
              /\ Len(IpRecordsOfKey(blackboard, k)) = Len(ExpectedAddresses(arg[k]))
        /\ Len(progs) = (IF "InstallationDirectory" \in DOMAIN arg THEN 1 ELSE 0)
        /\ \A i \in 1..Len(progs) :
              /\ AttrOf(progs[i], "TSK_PROG_NAME")
                     = <<"T", "e", "a", "m", "V", "i", "e", "w", "e", "r">>
              /\ AttrOf(progs[i], "TSK_PATH") = arg["InstallationDirectory"]
              /\ HasAttr(progs[i], "TSK_VERSION") <=> "Version" \in DOMAIN arg
              /\ "Version" \in DOMAIN arg =>
                     AttrOf(progs[i], "TSK_VERSION") = arg["Version"]
        /\ DOMAIN arg \cap SpecialKeys = {} =>
              \A i \in 1..Len(blackboard) :
                  blackboard[i].type \in {"TSK_TEAMVIEWER_REGISTRY_ITEM",
                                          "TSK_TEAMVIEWER_IP_ADDRESS"}

\* C16: for every registry value map the interpreter emits exactly one
\* generic key/value record per entry and scans every value for IP
\* addresses; it emits one installed-program record (name TeamViewer, path
\* the value) exactly when the map has InstallationDirectory, with a version
\* exactly when the map has Version; other keys yield no typed record.
C16_GenericAndInstalled == pc = "done" => GenericAndInstalled

\* what the code does: the same, for the maps whose interpretation is not
\* ended by the IndexError of a file transfer entry; when it is ended, the
\* entries not yet enumerated have no record
C16_AsCoded ==
    pc = "done" =>
        IF ret = "none" THEN GenericAndInstalled
        ELSE /\ "FT_Start_Directories" \in DOMAIN arg
             /\ Len(OfType(blackboard, "TSK_TEAMVIEWER_REGISTRY_ITEM"))
                    <= Cardinality(DOMAIN arg)

\* the maximal runs of hexadecimal digits of s from position i on
RECURSIVE HexRunsFrom(_, _)
HexRunsFrom(s, i) ==
    IF i > Len(s) THEN <<>>
    ELSE IF s[i] \notin HexDigit THEN HexRunsFrom(s, i + 1)
    ELSE LET Run(end) == <<SubSeq(s, i, end)>> \o HexRunsFrom(s, end + 1)
         IN  Run(CHOOSE j \in i..Len(s) :
                     /\ \A k \in i..j : s[k] \in HexDigit
                     /\ j = Len(s) \/ s[j + 1] \notin HexDigit)

\* the consecutive pieces of 12 characters of a run
Twelves(run) == [k \in 1..(Len(run) \div 12) |-> SubSeq(run, 12 * k - 11, 12 * k)]

\* the MAC address records, and the interpreted value they come from
MacRecords == OfType(blackboard, "TSK_TEAMVIEWER_MAC_ADDRESS")

MacInterpreted == pc = "done" /\ ret = "none" /\ "LastMACUsed" \in DOMAIN arg

\* C17: one MAC address record is emitted for each contiguous run of
\* exactly 12 hexadecimal digits of the LastMACUsed value and for nothing
\* else: a run of 13 or of 24 hexadecimal digits yields no record.
C17_MacRunsOfTwelve ==
    MacInterpreted =>
        LET want == SelectSeq(HexRunsFrom(arg["LastMACUsed"], 1),
                              LAMBDA run : Len(run) = 12)
        IN  /\ Len(MacRecords) = Len(want)
            /\ \A k \in 1..Len(want) : AttrOf(MacRecords[k], "TSK_VALUE") = want[k]

\* what the code does: every run of n hexadecimal digits yields n \div 12
\* records, its consecutive pieces of 12 digits
C17_AsCoded ==
    MacInterpreted =>
        LET runs == HexRunsFrom(arg["LastMACUsed"], 1)
            want == Flatten([k \in 1..Len(runs) |-> Twelves(runs[k])])
        IN  /\ Len(MacRecords) = Len(want)
            /\ \A k \in 1..Len(want) : AttrOf(MacRecords[k], "TSK_VALUE") = want[k]

\* the records an associated-artifact attribute of the record i refers to
ReferencesOf(i) ==
    {blackboard[i].attrs[n][2] : n \in {m \in 1..Len(blackboard[i].attrs) :
                                    blackboard[i].attrs[m][1] = "TSK_ASSOCIATED_ARTIFACT"}}

\* C19: no record carries an associated-artifact reference to itself: for
\* every key name every such reference written by the registry interpreter
\* points to a different record created earlier, and the generic key/value
\* record receives no such reference.
C19_NoSelfReference ==
    pc = "done" =>
        \A i \in 1..Len(blackboard) :
            /\ \A r \in ReferencesOf(i) : r \in 1..(i - 1)
            /\ blackboard[i].type = "TSK_TEAMVIEWER_REGISTRY_ITEM" => ReferencesOf(i) = {}

\* what the code does: the generic records of Username and Meeting_UserName
\* receive a reference to themselves; every other reference points to an
\* earlier record, and no other generic record receives one
C19_AsCoded ==
    pc = "done" =>
        \A i \in 1..Len(blackboard) :
            IF /\ blackboard[i].type = "TSK_TEAMVIEWER_REGISTRY_ITEM"
               /\ AttrOf(blackboard[i], "TSK_NAME") \in {"Username", "Meeting_UserName"}
            THEN ReferencesOf(i) = {i}
            ELSE /\ \A r \in ReferencesOf(i) : r \in 1..(i - 1)
                 /\ blackboard[i].type = "TSK_TEAMVIEWER_REGISTRY_ITEM" =>
                        ReferencesOf(i) = {}

-----------------------------------------------------------------------------
(* processHive on its own: one hive file that opens, with or without a key *)
(* at each of the paths it may be asked for.                                *)

HiveFiles ==
    LET Tree(vals, bad) ==
            [parent |-> <<0>>, vals |-> <<vals>>, bad |-> bad, badOp |-> "values"]
        \* a key that reads well, one of two values, one whose values cannot
        \* be read and one whose file transfer entry has no "?" before its "|"
        HiveTrees ==
            { Tree(<<SZ("ClientID", <<"1">>)>>, 0),
              Tree(<<SZ("Version", <<"1", "5">>), SZ("Always_Online", <<"1">>)>>, 0),
              Tree(<<SZ("ClientID", <<"2">>)>>, 1),
              Tree(<<SZ("FT_Start_Directories",
                        <<"[", "1", "2", "3", "4", "5", "6", "7", "|", "/", "s", "r",
                          "v", "/", "i", "n", "]">>)>>, 0) }
        HiveKeys ==
            { <<"TeamViewer">>, <<"WOW6432Node", "TeamViewer">>,
              <<"SOFTWARE", "TeamViewer">>,
              <<"SOFTWARE", "WOW6432Node", "TeamViewer">> }
    IN  {[id |-> 1, path |-> path, materializes |-> TRUE,
          content |-> [opens |-> TRUE, keys |-> keys]] :
            path \in {MachineHive.path, UserHive.path},
            keys \in UNION {[present -> HiveTrees] : present \in SUBSET HiveKeys}}

InitHive ==
    /\ InitOperation
    /\ arg \in HiveFiles
    /\ blackboard = <<>>
    /\ ret = <<>>

ReadHive ==
    /\ pc = "ready"
    /\ pc' = "done"
    /\ \E r \in processHive(blackboard, arg) : blackboard' = r.bb /\ ret' = r.exc
    /\ UNCHANGED <<jobVars, arg>>

SpecHive == InitHive /\ [][ReadHive]_vars

\* the two key paths to look up in a hive, in order
ExpectedKeyPaths(hive) ==
    LET plain == << <<"TeamViewer">>, <<"WOW6432Node", "TeamViewer">> >>
    IN  IF EndsWith(hive.path, <<"N", "T", "U", "S", "E", "R", ".", "D", "A", "T">>)
        THEN [i \in 1..2 |-> <<"SOFTWARE">> \o plain[i]]
        ELSE plain

\* the value names to interpret for the key at keyPath: none when the key
\* is absent or its tree cannot be walked
NamesUnder(hive, keyPath) ==
    LET Walked(w) == IF w.exc # "none" THEN {} ELSE DOMAIN w.dict
    IN  IF keyPath \notin DOMAIN hive.content.keys THEN {}
        ELSE Walked(processRegistryTree(hive.content.keys[keyPath]))

\* the names of the generic registry records, in the order of their creation
ItemNames(bb) ==
    LET items == OfType(bb, "TSK_TEAMVIEWER_REGISTRY_ITEM")
    IN  [k \in 1..Len(items) |-> AttrOf(items[k], "TSK_NAME")]

\* the generic records are those of the key at the first path followed by
\* those of the key at the second path
BothPathsInterpreted ==
    LET Split2(names, first, second) ==
            /\ Len(names) = Cardinality(first) + Cardinality(second)
            /\ {names[k] : k \in 1..Cardinality(first)} = first
            /\ {names[k] : k \in (Cardinality(first) + 1)..Len(names)} = second
    IN  Split2(ItemNames(blackboard),
               NamesUnder(arg, ExpectedKeyPaths(arg)[1]),
               NamesUnder(arg, ExpectedKeyPaths(arg)[2]))

\* neither key path is present in the hive
BothPathsAbsent ==
    \A i \in 1..2 : ExpectedKeyPaths(arg)[i] \notin DOMAIN arg.content.keys

\* C18: for every hive that opens processHive tries both key paths in
\* order, TeamViewer then WOW6432Node/TeamViewer, each prefixed with
\* SOFTWARE/ exactly when the path of the hive ends with NTUSER.DAT; an
\* absent key is skipped with no record and no error, and the key at the
\* other path is still looked up and, if present, walked and interpreted.
C18_BothKeyPathsTried ==
    pc = "done" =>
        /\ BothPathsInterpreted
        /\ BothPathsAbsent => (blackboard = <<>> /\ ret = "none")

\* what the code does: the same whenever nothing is raised; an exception
\* raised while the key at the first path is walked or interpreted leaves
\* processHive, and the second path is not looked up
C18_AsCoded ==
    pc = "done" =>
        /\ ret = "none" => BothPathsInterpreted
        /\ BothPathsAbsent => (blackboard = <<>> /\ ret = "none")
        /\ ret # "none" =>
              LET names == ItemNames(blackboard)
                  first == NamesUnder(arg, ExpectedKeyPaths(arg)[1])
              IN  \/ Len(names) <= Cardinality(first)
                  \/ {names[k] : k \in 1..Cardinality(first)} = first

-----------------------------------------------------------------------------
(* The order in which process handles the located files (under Spec).      *)

\* the types of the records process creates for the filesystem files
FileRecordTypes ==
    {"TSK_TEAMVIEWER_LOG", "TSK_TEAMVIEWER_SESSION_RECORDING", "TSK_TEAMVIEWER_CONFIG",
     "TSK_TEAMVIEWER_DATABASE"}

FileRecords(bb) == SelectSeq(bb, LAMBDA a : a.type \in FileRecordTypes)

\* the types of the records the parser of a match pattern may create
ParserRecordTypes(match) ==
    IF match \in {"connections.txt", "connections_incoming.txt"}
    THEN {"TSK_TEAMVIEWER_CONNECTION", "TSK_TEAMVIEWER_ID", "TSK_TEAMVIEWER_USERNAME",
          "TSK_TEAMVIEWER_IP_ADDRESS"}
    ELSE IF match = "TeamViewer%.log" THEN {"TSK_TEAMVIEWER_IP_ADDRESS"}
    ELSE IF match = "%.tvs"
    THEN {"TSK_TEAMVIEWER_ID", "TSK_TEAMVIEWER_USERNAME", "TSK_TEAMVIEWER_IP_ADDRESS"}
    ELSE IF match = "%.tvc" THEN {"TSK_TEAMVIEWER_ID"}
    ELSE {}

\* process has located the files after a successful startUp
Located == startUpSuccessful = "True" /\ pc \in {"processing", "returned", "raised"}

\* hives first, then the filesystem files one after the other, each with
\* its file record followed by the records of the parser of its match
\* pattern, the progress count rising by one per file up to the total
HandledInOrder ==
    LET recs == FileRecords(blackboard)
    IN  /\ progress = [k \in 1..filesProcessedCount |-> k]
        /\ filesProcessedCount <= filesToProcessCount
        /\ result = "OK" => filesProcessedCount = filesToProcessCount
        /\ recs # <<>> => filesProcessedCount >= Len(hiveFileList)
        /\ Len(recs) <= Len(fsFileList)
        /\ \A k \in 1..Len(recs) :
              /\ recs[k].type = FILE_MATCH_TYPE_DICTIONARY[fsFileList[k].match]
              /\ AttrOf(recs[k], "TSK_KEYWORD_REGEXP") = fsFileList[k].match
              /\ AttrOf(recs[k], "TSK_PATH") = fsFileList[k].path
        /\ \A i \in 1..Len(blackboard) :
              LET k == Len(FileRecords(SubSeq(blackboard, 1, i)))
              IN  (k >= 1 /\ blackboard[i].type \notin FileRecordTypes) =>
                      blackboard[i].type \in ParserRecordTypes(fsFileList[k].match)

\* C20: in a run of process after a successful startUp the files are
\* handled one at a time and each to completion: every located hive before
\* any filesystem file, each located filesystem file with exactly one file
\* record and the one parser of its match pattern, the progress count
\* rising by one per file, never above the announced total and equal to it
\* when process returns OK.
C20_FilesOneAtATime ==
    Located =>
        /\ HandledInOrder
        /\ pc # "processing" => Len(FileRecords(blackboard)) = Len(fsFileList)

\* what the code does: the same order and counts, but a run ended by an
\* exception leaves the files after the failing one without a file record
C20_AsCoded ==
    Located =>
        /\ HandledInOrder
        /\ pc = "returned" => Len(FileRecords(blackboard)) = Len(fsFileList)
        /\ pc # "returned" =>
              Len(FileRecords(blackboard))
                  = (IF filesProcessedCount < Len(hiveFileList) THEN 0
                     ELSE filesProcessedCount - Len(hiveFileList)
                          + (IF pc = "raised" THEN 1 ELSE 0))

====
